---- MODULE Spec2Model ----
(***************************************************************************)
(* Model of the price streaming layer of GBNX-Gold-Trader:                 *)
(*   backend/src/pricings/stream_manager.py   (PriceStreamManager)         *)
(*   backend/src/pricings/websocket_client.py (PriceWebSocketClient)       *)
(*                                                                         *)
(* The program runs on one asyncio event loop: code between two awaits is  *)
(* one atomic step, and every await that really suspends (connect, close,  *)
(* recv, sleep, gather of the callbacks) separates two actions.            *)
(***************************************************************************)
EXTENDS Integers, Sequences, FiniteSets, TLC

\* ---------------------------------------------------------------- bounds
MaxClients == 2          \* PriceWebSocketClient objects ever constructed
MaxEvents  == 3          \* upstream events: ticks, malformed frames, failed connects, closes
ExtraEvents == 1         \* upstream events beyond the max_retries faults that exhaust one listen loop
MaxAsked   == 2          \* subscribe calls of one callback for one symbol without an unsubscribe between

\* ------------------------------------------------- constants of the code
max_retries         == 5     \* listen_with_reconnect: max_retries = 5
initial_retry_delay == 1     \* listen_with_reconnect: retry_delay = 1
max_retry_delay     == 30    \* min(retry_delay * 2, 30)

Instruments == {"XAU_USD"}
\* Each caller is one downstream handler; it owns one callback (its closure
\* send_tick_to_client) and awaits each of its manager calls before the next.
Callers     == {"a", "b"}
ClientIds   == 1..MaxClients

VARIABLES
    subscribers,   \* self.subscribers : symbol -> set of callbacks (a dict: partial function)
    clients,       \* self.clients     : symbol -> client object
    tasks,         \* self.tasks       : symbol -> listen task (named by the client it closes over)
    client,        \* the PriceWebSocketClient objects: symbol, websocket, running
    task,          \* the listen_with_reconnect tasks: position and locals
    nclients,      \* number of client objects constructed so far
    call,          \* the manager call each caller is suspended in, if any
    delivered,     \* the broadcast completed by the last step, if any: tick, callbacks invoked, those that raised
    budget,        \* the number of upstream events of this run (fixed by Init)
    sent           \* upstream events so far; a tick is named by its position among them

\* the OHLC cache and the REST client (cache.py, price_client.py)
VARIABLES
    cache,         \* OHLCCache.cache : key -> (timestamp, data)
    lock,          \* OHLCCache.lock  : "free" or the caller that holds it
    now,           \* datetime.now(), in units of half a ttl
    req,           \* the cache or REST call each caller is in: position and locals
    lastSet,       \* per key, the timestamp and payload of the last set since the last clear
    ncalls         \* calls started so far

\* the parsers of upstream data (websocket_client.py, price_client.py)
VARIABLES
    message,       \* the frame that websocket.recv() returned to the listen loop, if any
    outcome,       \* what the loop made of it: the error raised, the ticks handed to the callback
    item,          \* the item of a REST response that get_ohlc_data parsed, if any
    parsed         \* what it made of it: the error raised, or the candle

parseVars == <<message, outcome, item, parsed>>

\* a handler of the multi-symbol endpoint (websocket_router.py)
VARIABLE
    multi          \* its position and its locals subscribed_symbols and callbacks

\* the subscribe calls made for each callback and symbol and not yet undone
\* by an unsubscribe call (an observation: the manager keeps no such count)
VARIABLE
    asked

\* a call of get_multiple_pairs_ohlc (batch_operations.py)
VARIABLE
    batch          \* its position, its argument pairs and the dict it returned

pollVars == <<cache, lock, now, req, lastSet, ncalls>>

\* what the steps of the stream manager leave alone
cacheVars == <<pollVars, parseVars, multi, asked, batch>>

vars == <<subscribers, clients, tasks, client, task, nclients, call, delivered,
          budget, sent, cacheVars>>

\* ------------------------------------------------------- dict operations
Put(d, k, v) == [x \in (DOMAIN d) \cup {k} |-> IF x = k THEN v ELSE d[x]]
EmptyDict    == [x \in {} |-> 0]

\* (mutant) a del that clears the dict
DelAll(d, k) == EmptyDict

\* del d[k]
Del(d, k)    == [x \in (DOMAIN d) \ {k} |-> d[x]]

Min(a, b) == IF a < b THEN a ELSE b

\* ------------------------------------------------------- object records
NoClient == [symbol |-> "none", websocket |-> "None", running |-> FALSE]
NoTask   == [pc |-> "none", retry_count |-> 0, retry_delay |-> initial_retry_delay,
             cancel |-> FALSE, snapshot |-> {}, tick |-> 0, delays |-> <<>>]
Idle     == [pc |-> "idle", op |-> "none", symbol |-> "none", client |-> 0, ret |-> "none"]

\* PriceWebSocketClient.__init__
NewClient(sym) == [symbol |-> sym, websocket |-> "None", running |-> FALSE]

\* asyncio.create_task(listen_with_reconnect()): locals at their initial values
NewTask == [NoTask EXCEPT !.pc = "start"]

\* what a cache or REST call returns besides a list of candles: None, or
\* an exception raised to the caller
None     == <<"None">>
Raised   == <<"raised">>
NoResp   == [status |-> "none", shape |-> "none", items |-> <<>>]
NoCall   == [pc |-> "idle", op |-> "none", key |-> <<>>, attempt |-> 0, slept |-> <<>>,
             last_error |-> "none", hit |-> FALSE, fetches |-> 0, resp |-> NoResp, ret |-> None,
             held |-> "none"]

NoBroadcast == [symbol |-> "none", tick |-> 0, invoked |-> {}, raised |-> {}]

\* websocket_multi_price_feed after accept(): subscribed_symbols = set(),
\* callbacks = {}; made counts the send_tick closures created so far, cb is
\* the callback of the manager call that the handler awaits, todo the rest
\* of list(subscribed_symbols) in the finally block
NoHandler == [pc |-> "receive", subscribed_symbols |-> {}, callbacks |-> <<>>, made |-> 0,
              cb |-> "none", todo |-> {}]

\* no batch call made yet
NoBatch   == [pc |-> "idle", pairs |-> <<>>, ret |-> <<>>]

NoMessage == [json |-> FALSE, data |-> <<>>]
NoOutcome == [ok |-> FALSE, error |-> "none", ticks |-> <<>>]
NoItem    == <<>>
NoParsed  == [ok |-> FALSE, error |-> "none", candle |-> <<>>]

\* nothing received and nothing parsed yet
InitParse ==
    /\ message = NoMessage
    /\ outcome = NoOutcome
    /\ item = NoItem
    /\ parsed = NoParsed

\* OHLCCache.__init__, and no call in progress
InitCache ==
    /\ cache = EmptyDict
    /\ lock = "free"
    /\ now = 0
    /\ req = [p \in Callers |-> NoCall]
    /\ lastSet = EmptyDict
    /\ ncalls = 0

InitManager ==
    /\ InitCache
    /\ InitParse
    /\ multi = NoHandler
    /\ asked = [p \in Callers |-> [sym \in Instruments |-> 0]]
    /\ batch = NoBatch
    /\ subscribers = EmptyDict
    /\ clients = EmptyDict
    /\ tasks = EmptyDict
    /\ client = [c \in ClientIds |-> NoClient]
    /\ task = [c \in ClientIds |-> NoTask]
    /\ nclients = 0
    /\ call = [p \in Callers |-> Idle]
    /\ delivered = NoBroadcast
    /\ sent = 0

\* the manager after construction, with an upstream that acts MaxEvents times
Init == InitManager /\ budget = MaxEvents

\* the same manager with an upstream that may fail often enough to exhaust
\* the retries of one listen loop
InitRetry == InitManager /\ budget = max_retries + ExtraEvents

\* the call returns (ret "ok") or raises (ret "raised") to the awaiting caller
Return(p, op, sym, r) == [call EXCEPT ![p] = [pc |-> "returned", op |-> op, symbol |-> sym, client |-> 0, ret |-> r]]

\* the caller's handler runs on after the awaited call (websocket_router.py:40,108)
Resume(p) ==
    /\ call[p].pc = "returned"
    /\ call' = [call EXCEPT ![p] = Idle]
    /\ UNCHANGED <<subscribers, clients, tasks, client, task, nclients, budget, sent>>
    /\ delivered' = NoBroadcast
    /\ UNCHANGED cacheVars

\* (mutant) a stream is started by every subscribe
NeedsStreamAlways(sym) == TRUE

\* (mutant) a stream is started only for a symbol that has no subscriber entry
NeedsStreamUnsubscribed(sym) == sym \notin DOMAIN subscribers

\* "if symbol_str not in self.clients" (stream_manager.py:25)
NeedsStream(sym) == sym \notin DOMAIN clients

\* (mutant) a discard that removes nothing
DiscardNothing(callbacks, callback) == callbacks

\* self.subscribers[symbol_str].discard(callback)
Discard(callbacks, callback) == callbacks \ {callback}

\* (mutant) every unsubscribe of a known symbol stops its stream
LastSubscriberGoneAlways(rest) == TRUE

\* "if not self.subscribers[symbol_str]" (stream_manager.py:38)
LastSubscriberGone(rest) == rest = {}

\* --------------------------------------------------------------- subscribe
\* subscribe, up to the await of client.connect() in _start_stream
SubscribeCall(p, sym) ==
    /\ call[p].pc = "idle"
    /\ LET old == IF sym \in DOMAIN subscribers THEN subscribers[sym] ELSE {}
       IN  subscribers' = Put(subscribers, sym, old \cup {p})
    /\ IF NeedsStream(sym)
       THEN /\ nclients < MaxClients
            /\ nclients' = nclients + 1
            /\ client' = [client EXCEPT ![nclients + 1] = NewClient(sym)]
            /\ call' = [call EXCEPT ![p] = [pc |-> "connect", op |-> "subscribe",
                                            symbol |-> sym, client |-> nclients + 1, ret |-> "none"]]
       ELSE /\ call' = Return(p, "subscribe", sym, "ok")
            /\ UNCHANGED <<nclients, client>>
    /\ UNCHANGED <<clients, tasks, task, budget, sent>>
    /\ delivered' = NoBroadcast

\* subscribe called by a caller that registers itself as the callback
Subscribe(p, sym) == SubscribeCall(p, sym) /\ UNCHANGED cacheVars

\* client.connect() of _start_stream succeeded: the rest of _start_stream
StartStreamConnected(p) ==
    /\ call[p].pc = "connect"
    /\ LET c == call[p].client
           sym == call[p].symbol
       IN  /\ client' = [client EXCEPT ![c].websocket = "open", ![c].running = TRUE]
           /\ clients' = Put(clients, sym, c)
           /\ task' = [task EXCEPT ![c] = NewTask]
           /\ tasks' = Put(tasks, sym, c)
           /\ call' = Return(p, "subscribe", sym, "ok")
    /\ UNCHANGED <<subscribers, nclients, budget, sent>>
    /\ delivered' = NoBroadcast
    /\ UNCHANGED cacheVars

\* client.connect() of _start_stream raised: subscribe raises to its caller
StartStreamConnectFailed(p) ==
    /\ call[p].pc = "connect"
    /\ sent < budget
    /\ sent' = sent + 1
    /\ call' = Return(p, "subscribe", call[p].symbol, "raised")
    /\ UNCHANGED <<subscribers, clients, tasks, client, task, nclients, budget>>
    /\ delivered' = NoBroadcast
    /\ UNCHANGED cacheVars

\* ------------------------------------------------------------- task helpers
TaskLive(t) == t.pc \notin {"none", "finished", "gaveup", "cancelled"}

\* the coroutine returned or raised: its locals are gone; the delays it
\* slept are kept as the observation of its backoff
TaskEnd(t, how) == [NoTask EXCEPT !.pc = how, !.delays = IF how = "gaveup" THEN t.delays ELSE <<>>]

\* asyncio.Task.cancel(): no effect on a task that is done, otherwise the
\* CancelledError is thrown into the task when it next runs
Cancel(t) == IF TaskLive(t) THEN [t EXCEPT !.cancel = TRUE] ELSE t

\* "except Exception" (stream_manager.py:65,78, websocket_client.py:151):
\* CancelledError derives from BaseException and is not caught
ExceptException(exc) == exc # "CancelledError"

\* websocket_client.py listen: "while self.running"
LoopHead(cl) == IF cl.running THEN "recv" ELSE "finished"

\* client.listen up to its first await: connect when there is no websocket
EnterListen(cl) == IF cl.websocket = "None" THEN "lconn" ELSE LoopHead(cl)

\* the task moves to the position pc; "finished" is the break after a
\* listen that returned normally, which ends the task
Goto(t, pc) == IF pc = "finished" THEN TaskEnd(t, pc) ELSE [t EXCEPT !.pc = pc]

\* (mutant) a backoff that grows by one second
NextDelayLinear(d) == Min(d + 1, max_retry_delay)

\* min(retry_delay * 2, 30)
NextDelay(d) == Min(d * 2, max_retry_delay)

\* (mutant) a loop that retries once more after max_retries failures
MayRetryOnceMore(rc) == rc <= max_retries

\* "if retry_count < max_retries" after the increment (stream_manager.py:69)
MayRetry(rc) == rc < max_retries

\* the handler of "except Exception" in listen_with_reconnect, up to its
\* await of asyncio.sleep(retry_delay), or to the break that gives up
OnListenError(t) ==
    LET rc == t.retry_count + 1
    IN  IF MayRetry(rc)
        THEN [t EXCEPT !.retry_count = rc, !.pc = "sleep",
                       !.delays = Append(t.delays, t.retry_delay)]
        ELSE TaskEnd(t, "gaveup")

\* (mutant) a gather without return_exceptions: the first exception propagates
GatherPropagating(snapshot, raising) == [invoked |-> snapshot, raised |-> raising # {}]

\* asyncio.gather(*[callback(tick) ...], return_exceptions=True): every
\* callback of the snapshot is run, exceptions are returned as results
Gather(snapshot, raising) == [invoked |-> snapshot, raised |-> FALSE]

\* ------------------------------------------------------------- unsubscribe
\* unsubscribe, and _stop_stream up to the await of websocket.close()
UnsubscribeCall(p, sym) ==
    /\ call[p].pc = "idle"
    /\ IF sym \notin DOMAIN subscribers
       THEN /\ call' = Return(p, "unsubscribe", sym, "ok")
            /\ UNCHANGED <<subscribers, clients, tasks, client, task>>
       ELSE LET rest == Discard(subscribers[sym], p)
            IN  IF ~LastSubscriberGone(rest)
                THEN /\ subscribers' = Put(subscribers, sym, rest)
                     /\ call' = Return(p, "unsubscribe", sym, "ok")
                     /\ UNCHANGED <<clients, tasks, client, task>>
                ELSE \* _stop_stream(symbol_str)
                     /\ IF sym \in DOMAIN tasks
                        THEN /\ task' = [task EXCEPT ![tasks[sym]] = Cancel(@)]
                             /\ tasks' = Del(tasks, sym)
                        ELSE UNCHANGED <<task, tasks>>
                     /\ IF sym \in DOMAIN clients
                        THEN LET c == clients[sym]
                             IN  /\ client' = [client EXCEPT ![c].running = FALSE]
                                 /\ IF client[c].websocket # "None"
                                    THEN /\ subscribers' = Put(subscribers, sym, rest)
                                         /\ call' = [call EXCEPT ![p] =
                                                [pc |-> "close", op |-> "unsubscribe",
                                                 symbol |-> sym, client |-> c, ret |-> "none"]]
                                         /\ UNCHANGED clients
                                    ELSE /\ clients' = Del(clients, sym)
                                         /\ subscribers' = Del(subscribers, sym)
                                         /\ call' = Return(p, "unsubscribe", sym, "ok")
                        ELSE /\ subscribers' = Del(subscribers, sym)
                             /\ call' = Return(p, "unsubscribe", sym, "ok")
                             /\ UNCHANGED <<clients, client>>
    /\ UNCHANGED <<nclients, budget, sent>>
    /\ delivered' = NoBroadcast

\* unsubscribe called by a caller that removes itself as the callback
Unsubscribe(p, sym) == UnsubscribeCall(p, sym) /\ UNCHANGED cacheVars

\* websocket.close() of disconnect returned: the rest of _stop_stream.
\* "del self.clients[symbol_str]" raises KeyError when the entry is gone.
StopStreamClosed(p) ==
    /\ call[p].pc = "close"
    /\ LET c == call[p].client
           sym == call[p].symbol
       IN  /\ client' = [client EXCEPT ![c].websocket = "None"]
           /\ IF sym \in DOMAIN clients
              THEN /\ clients' = Del(clients, sym)
                   /\ subscribers' = Del(subscribers, sym)
                   /\ call' = Return(p, call[p].op, sym, "ok")
              ELSE /\ call' = Return(p, call[p].op, sym, "raised")
                   /\ UNCHANGED <<clients, subscribers>>
    /\ UNCHANGED <<tasks, task, nclients, budget, sent>>
    /\ delivered' = NoBroadcast
    /\ UNCHANGED cacheVars

\* ------------------------------------------------------------ the upstream
\* the peer closes the socket, the network drops it, or a keepalive pong is missed
PeerClose(c) ==
    /\ client[c].websocket = "open"
    /\ sent < budget
    /\ sent' = sent + 1
    /\ client' = [client EXCEPT ![c].websocket = "closed"]
    /\ UNCHANGED <<subscribers, clients, tasks, task, nclients, call, budget>>
    /\ delivered' = NoBroadcast
    /\ UNCHANGED cacheVars

\* ------------------------------------------------------------ listen task
TaskVars == <<subscribers, clients, tasks, nclients, call>>

\* first run of the task: while retry_count < max_retries: client.listen(...)
TaskStart(c) ==
    /\ task[c].pc = "start" /\ ~task[c].cancel
    /\ task' = [task EXCEPT ![c] = Goto(@, EnterListen(client[c]))]
    /\ UNCHANGED <<TaskVars, client, budget, sent>>
    /\ delivered' = NoBroadcast
    /\ UNCHANGED cacheVars

\* listen: "if not self.websocket: await self.connect()" succeeded
TaskListenConnected(c) ==
    /\ task[c].pc = "lconn" /\ ~task[c].cancel
    /\ client' = [client EXCEPT ![c].websocket = "open", ![c].running = TRUE]
    /\ task' = [task EXCEPT ![c].pc = "recv"]
    /\ UNCHANGED <<TaskVars, budget, sent>>
    /\ delivered' = NoBroadcast
    /\ UNCHANGED cacheVars

\* the same connect raised: listen raises before its try block
TaskListenConnectFailed(c) ==
    /\ task[c].pc = "lconn" /\ ~task[c].cancel
    /\ sent < budget
    /\ sent' = sent + 1
    /\ task' = [task EXCEPT ![c] = OnListenError(@)]
    /\ UNCHANGED <<TaskVars, client, budget>>
    /\ delivered' = NoBroadcast
    /\ UNCHANGED cacheVars

\* receive_tick returned a tick; callback(tick) is broadcast_tick, which
\* awaits the gather of the callbacks registered at this moment
TaskRecvTick(c) ==
    /\ task[c].pc = "recv" /\ ~task[c].cancel
    /\ client[c].websocket = "open"
    /\ sent < budget
    /\ sent' = sent + 1
    /\ LET sym == client[c].symbol
       IN  IF sym \in DOMAIN subscribers /\ subscribers[sym] # {}
           THEN task' = [task EXCEPT ![c].pc = "bcast", ![c].tick = sent + 1,
                                     ![c].snapshot = subscribers[sym]]
           ELSE task' = [task EXCEPT ![c] = Goto(@, LoopHead(client[c]))]
    /\ UNCHANGED <<TaskVars, client, budget>>
    /\ delivered' = NoBroadcast
    /\ UNCHANGED cacheVars

\* receive_tick raised on a frame it cannot parse (json.loads, ValueError):
\* listen's "except Exception" clears running and re-raises
TaskRecvMalformed(c) ==
    /\ task[c].pc = "recv" /\ ~task[c].cancel
    /\ client[c].websocket = "open"
    /\ sent < budget
    /\ sent' = sent + 1
    /\ client' = [client EXCEPT ![c].running = FALSE]
    /\ task' = [task EXCEPT ![c] = OnListenError(@)]
    /\ UNCHANGED <<TaskVars, budget>>
    /\ delivered' = NoBroadcast
    /\ UNCHANGED cacheVars

\* recv on a closed socket raises ConnectionClosed: listen catches it,
\* clears running and returns, and listen_with_reconnect breaks.
\* Without a websocket receive_tick raises RuntimeError instead.
TaskRecvClosed(c) ==
    /\ task[c].pc = "recv" /\ ~task[c].cancel
    /\ client[c].websocket # "open"
    /\ client' = [client EXCEPT ![c].running = FALSE]
    /\ IF client[c].websocket = "closed"
       THEN task' = [task EXCEPT ![c] = TaskEnd(@, "finished")]
       ELSE task' = [task EXCEPT ![c] = OnListenError(@)]
    /\ UNCHANGED <<TaskVars, budget, sent>>
    /\ delivered' = NoBroadcast
    /\ UNCHANGED cacheVars

\* the gather of broadcast_tick completed; the callbacks in raising raised
TaskBroadcastDone(c, raising) ==
    /\ task[c].pc = "bcast" /\ ~task[c].cancel
    /\ raising \subseteq task[c].snapshot
    /\ LET sym == client[c].symbol
           res == Gather(task[c].snapshot, raising)
       IN  /\ delivered' = [symbol |-> sym, tick |-> task[c].tick,
                             invoked |-> res.invoked, raised |-> raising]
           /\ IF res.raised
              THEN /\ client' = [client EXCEPT ![c].running = FALSE]
                   /\ task' = [task EXCEPT ![c] = OnListenError([@ EXCEPT !.snapshot = {}, !.tick = 0])]
              ELSE /\ task' = [task EXCEPT ![c] = Goto([@ EXCEPT !.snapshot = {}, !.tick = 0],
                                                        LoopHead(client[c]))]
                   /\ UNCHANGED client
    /\ UNCHANGED <<TaskVars, budget, sent, cacheVars>>

\* asyncio.sleep(retry_delay) returned: double the delay, client.disconnect()
TaskSleepDone(c) ==
    /\ task[c].pc = "sleep" /\ ~task[c].cancel
    /\ client' = [client EXCEPT ![c].running = FALSE]
    /\ task' = [task EXCEPT ![c].retry_delay = NextDelay(@),
                            ![c].pc = IF client[c].websocket # "None" THEN "disc" ELSE "conn"]
    /\ UNCHANGED <<TaskVars, budget, sent>>
    /\ delivered' = NoBroadcast
    /\ UNCHANGED cacheVars

\* websocket.close() of the reconnect's disconnect returned; await client.connect()
TaskDisconnected(c) ==
    /\ task[c].pc = "disc" /\ ~task[c].cancel
    /\ client' = [client EXCEPT ![c].websocket = "None"]
    /\ task' = [task EXCEPT ![c].pc = "conn"]
    /\ UNCHANGED <<TaskVars, budget, sent>>
    /\ delivered' = NoBroadcast
    /\ UNCHANGED cacheVars

\* the reconnect's client.connect() succeeded; next iteration calls listen
TaskReconnected(c) ==
    /\ task[c].pc = "conn" /\ ~task[c].cancel
    /\ LET cl == [client[c] EXCEPT !.websocket = "open", !.running = TRUE]
       IN  /\ client' = [client EXCEPT ![c] = cl]
           /\ task' = [task EXCEPT ![c] = Goto(@, EnterListen(cl))]
    /\ UNCHANGED <<TaskVars, budget, sent>>
    /\ delivered' = NoBroadcast
    /\ UNCHANGED cacheVars

\* the reconnect's client.connect() raised: "Reconnection failed" is printed
\* and the next iteration calls listen, which connects again
TaskReconnectFailed(c) ==
    /\ task[c].pc = "conn" /\ ~task[c].cancel
    /\ sent < budget
    /\ sent' = sent + 1
    /\ task' = [task EXCEPT ![c] = Goto(@, EnterListen(client[c]))]
    /\ UNCHANGED <<TaskVars, client, budget>>
    /\ delivered' = NoBroadcast
    /\ UNCHANGED cacheVars

\* the CancelledError requested by _stop_stream is thrown at the task's await
TaskCancelled(c) ==
    /\ TaskLive(task[c]) /\ task[c].cancel
    /\ LET t == [task[c] EXCEPT !.cancel = FALSE, !.snapshot = {}, !.tick = 0]
       IN  IF ExceptException("CancelledError") /\ t.pc \in {"recv", "bcast", "lconn"}
           THEN task' = [task EXCEPT ![c] = OnListenError(t)]
           ELSE IF ExceptException("CancelledError") /\ t.pc \in {"disc", "conn"}
           THEN task' = [task EXCEPT ![c] = Goto(t, EnterListen(client[c]))]
           ELSE task' = [task EXCEPT ![c] = TaskEnd(t, "cancelled")]
    /\ UNCHANGED <<TaskVars, client, budget, sent>>
    /\ delivered' = NoBroadcast
    /\ UNCHANGED cacheVars

Next ==
    \/ \E p \in Callers, sym \in Instruments : Subscribe(p, sym)
    \/ \E p \in Callers : StartStreamConnected(p)
    \/ \E p \in Callers : StartStreamConnectFailed(p)
    \/ \E p \in Callers, sym \in Instruments : Unsubscribe(p, sym)
    \/ \E p \in Callers : StopStreamClosed(p)
    \/ \E p \in Callers : Resume(p)
    \/ \E c \in ClientIds : PeerClose(c)
    \/ \E c \in ClientIds : TaskStart(c)
    \/ \E c \in ClientIds : TaskListenConnected(c)
    \/ \E c \in ClientIds : TaskListenConnectFailed(c)
    \/ \E c \in ClientIds : TaskRecvTick(c)
    \/ \E c \in ClientIds : TaskRecvMalformed(c)
    \/ \E c \in ClientIds : TaskRecvClosed(c)
    \/ \E c \in ClientIds : \E raising \in SUBSET Callers : TaskBroadcastDone(c, raising)
    \/ \E c \in ClientIds : TaskSleepDone(c)
    \/ \E c \in ClientIds : TaskDisconnected(c)
    \/ \E c \in ClientIds : TaskReconnected(c)
    \/ \E c \in ClientIds : TaskReconnectFailed(c)
    \/ \E c \in ClientIds : TaskCancelled(c)

Spec == Init /\ [][Next]_vars

\* no subscribe or unsubscribe call is in progress
Quiescent == \A p \in Callers : call[p].pc \in {"idle", "returned"}

\* the callers await each manager call before any of them starts the next
\* one; the listen tasks and the upstream run as before
NextSerial ==
    \/ \E p \in Callers, sym \in Instruments : Quiescent /\ Subscribe(p, sym)
    \/ \E p \in Callers : StartStreamConnected(p)
    \/ \E p \in Callers : StartStreamConnectFailed(p)
    \/ \E p \in Callers, sym \in Instruments : Quiescent /\ Unsubscribe(p, sym)
    \/ \E p \in Callers : StopStreamClosed(p)
    \/ \E p \in Callers : Resume(p)
    \/ \E c \in ClientIds : PeerClose(c)
    \/ \E c \in ClientIds : TaskStart(c)
    \/ \E c \in ClientIds : TaskListenConnected(c)
    \/ \E c \in ClientIds : TaskListenConnectFailed(c)
    \/ \E c \in ClientIds : TaskRecvTick(c)
    \/ \E c \in ClientIds : TaskRecvMalformed(c)
    \/ \E c \in ClientIds : TaskRecvClosed(c)
    \/ \E c \in ClientIds : \E raising \in SUBSET Callers : TaskBroadcastDone(c, raising)
    \/ \E c \in ClientIds : TaskSleepDone(c)
    \/ \E c \in ClientIds : TaskDisconnected(c)
    \/ \E c \in ClientIds : TaskReconnected(c)
    \/ \E c \in ClientIds : TaskReconnectFailed(c)
    \/ \E c \in ClientIds : TaskCancelled(c)

SpecSerial == Init /\ [][NextSerial]_vars

\* one downstream handler alone, and an upstream that fails often enough to
\* exhaust the retries of a listen loop
Solo == {"a"}

NextRetry ==
    \/ \E p \in Solo, sym \in Instruments : Subscribe(p, sym)
    \/ \E p \in Solo : StartStreamConnected(p)
    \/ \E p \in Solo : StartStreamConnectFailed(p)
    \/ \E p \in Solo, sym \in Instruments : Unsubscribe(p, sym)
    \/ \E p \in Solo : StopStreamClosed(p)
    \/ \E p \in Solo : Resume(p)
    \/ \E c \in ClientIds : PeerClose(c)
    \/ \E c \in ClientIds : TaskStart(c)
    \/ \E c \in ClientIds : TaskListenConnected(c)
    \/ \E c \in ClientIds : TaskListenConnectFailed(c)
    \/ \E c \in ClientIds : TaskRecvTick(c)
    \/ \E c \in ClientIds : TaskRecvMalformed(c)
    \/ \E c \in ClientIds : TaskRecvClosed(c)
    \/ \E c \in ClientIds : \E raising \in SUBSET Callers : TaskBroadcastDone(c, raising)
    \/ \E c \in ClientIds : TaskSleepDone(c)
    \/ \E c \in ClientIds : TaskDisconnected(c)
    \/ \E c \in ClientIds : TaskReconnected(c)
    \/ \E c \in ClientIds : TaskReconnectFailed(c)
    \/ \E c \in ClientIds : TaskCancelled(c)

SpecRetry == InitRetry /\ [][NextRetry]_vars

\* serial calls with an upstream on which every connect succeeds (frames may
\* still be malformed and sockets may still be closed by the peer)
NextConnected ==
    \/ \E p \in Callers, sym \in Instruments : Quiescent /\ Subscribe(p, sym)
    \/ \E p \in Callers : StartStreamConnected(p)
    \/ \E p \in Callers, sym \in Instruments : Quiescent /\ Unsubscribe(p, sym)
    \/ \E p \in Callers : StopStreamClosed(p)
    \/ \E p \in Callers : Resume(p)
    \/ \E c \in ClientIds : PeerClose(c)
    \/ \E c \in ClientIds : TaskStart(c)
    \/ \E c \in ClientIds : TaskRecvTick(c)
    \/ \E c \in ClientIds : TaskRecvMalformed(c)
    \/ \E c \in ClientIds : TaskRecvClosed(c)
    \/ \E c \in ClientIds : \E raising \in SUBSET Callers : TaskBroadcastDone(c, raising)
    \/ \E c \in ClientIds : TaskSleepDone(c)
    \/ \E c \in ClientIds : TaskDisconnected(c)
    \/ \E c \in ClientIds : TaskReconnected(c)
    \/ \E c \in ClientIds : TaskCancelled(c)

SpecConnected == Init /\ [][NextConnected]_vars

\* ------------------------------------------------------------ observations
\* the subscriber set of a symbol, empty when the dict has no entry
Subs(sym) == IF sym \in DOMAIN subscribers THEN subscribers[sym] ELSE {}

\* get_active_streams(): list(self.clients.keys())
get_active_streams == DOMAIN clients

\* the client objects of a symbol whose upstream socket is open
OpenSockets(sym) == {c \in ClientIds : client[c].symbol = sym /\ client[c].websocket = "open"}

\* the listen tasks of a symbol that run on (not ended, not cancelled)
Running(c) == TaskLive(task[c]) /\ ~task[c].cancel
RunningTasks(sym) == {c \in ClientIds : client[c].symbol = sym /\ Running(c)}

\* the connections of a symbol: client objects that hold a socket or are
\* driven by a running listen task
Connections(sym) == {c \in ClientIds : client[c].symbol = sym
                                       /\ (client[c].websocket # "None" \/ Running(c))}

Tracked(c) == client[c].symbol \in DOMAIN clients /\ clients[client[c].symbol] = c
TaskTracked(c) == client[c].symbol \in DOMAIN tasks /\ tasks[client[c].symbol] = c

Returned(p, op, sym) == call[p].pc = "returned" /\ call[p].op = op /\ call[p].symbol = sym

\* ------------------------------------------------------------------ claims

\* C1: with calls that do not overlap and connects that all succeed, at every
\* point between two calls a symbol with N >= 1 subscribed callbacks has
\* exactly one connection, the one the manager holds; a symbol whose
\* callbacks were all unsubscribed has none; get_active_streams() lists a
\* symbol exactly when that connection exists; and a callback is in the
\* subscriber set exactly when its last call was a subscribe.
C1_ReferenceCount ==
    Quiescent =>
        \A sym \in Instruments :
            /\ Subs(sym) # {} => sym \in DOMAIN clients /\ Connections(sym) = {clients[sym]}
            /\ Subs(sym) = {} => Connections(sym) = {}
            /\ sym \in get_active_streams <=> Connections(sym) # {}
            /\ \A p \in Callers :
                  /\ Returned(p, "subscribe", sym) => p \in Subs(sym) /\ call[p].ret = "ok"
                  /\ Returned(p, "unsubscribe", sym) => p \notin Subs(sym) /\ call[p].ret = "ok"

\* two callbacks are subscribed to one symbol and it has one connection
C1_Witness ==
    /\ Quiescent
    /\ \E sym \in Instruments : Subs(sym) = Callers /\ Cardinality(Connections(sym)) = 1

\* both callbacks were subscribed and unsubscribed again: nothing is left
C1_WitnessZero ==
    /\ \A p \in Callers : \E sym \in Instruments : Returned(p, "unsubscribe", sym)
    /\ nclients > 0
    /\ sent > 0
    /\ \A sym \in Instruments : Connections(sym) = {}

\* C2: subscribe calls that overlap on one symbol never produce more than one
\* open upstream socket or more than one running listen task for it, and
\* every open socket and every running listen task is the one the manager
\* tracks in self.clients and self.tasks.
C2_SingleConnection ==
    \A sym \in Instruments :
        /\ Cardinality(OpenSockets(sym)) <= 1
        /\ Cardinality(RunningTasks(sym)) <= 1
        /\ \A c \in OpenSockets(sym) : Tracked(c)
        /\ \A c \in RunningTasks(sym) : TaskTracked(c)

\* C3: once no call is in progress, a callback whose subscribe call has
\* returned normally (and which has not been unsubscribed since) is in the
\* subscriber set of its symbol, and the manager holds a connection and a
\* listen task for that symbol - also when the subscribe ran during the
\* teardown of the last unsubscribe.
C3_SubscribeSurvivesTeardown ==
    Quiescent =>
        \A p \in Callers, sym \in Instruments :
            (Returned(p, "subscribe", sym) /\ call[p].ret = "ok") =>
                /\ p \in Subs(sym)
                /\ sym \in DOMAIN clients
                /\ sym \in DOMAIN tasks

\* C4: whenever no subscribe or unsubscribe call is in progress, the manager
\* holds a connection for a symbol if and only if the subscriber set of the
\* symbol is not empty.
C4_ConnectionIffSubscribers ==
    Quiescent => \A sym \in Instruments : (sym \in DOMAIN clients) <=> (Subs(sym) # {})

\* C5: the callbacks of a broadcast are those registered when the tick was
\* received; when the gather completes every one of them has been invoked
\* with that tick, whichever of them raised, and the listen loop goes on to
\* the next receive on the same socket with its failure count unchanged.
C5_FanOutIsolated ==
    [][\A c \in ClientIds :
          /\ (task[c].pc = "recv" /\ task'[c].pc = "bcast") =>
                task'[c].snapshot = Subs(client[c].symbol)
          /\ (task[c].pc = "bcast" /\ ~task[c].cancel /\ task'[c].pc # "bcast") =>
                /\ delivered'.symbol = client[c].symbol
                /\ delivered'.tick = task[c].tick
                /\ delivered'.invoked = task[c].snapshot
                /\ task'[c].pc = "recv"
                /\ task'[c].retry_count = task[c].retry_count
                /\ client'[c] = client[c]]_vars

\* two callbacks were invoked with a tick, one of them raised, and the
\* listen loop waits for the next frame with no failure counted
C5_Witness ==
    /\ Cardinality(delivered.invoked) = 2
    /\ delivered.raised # {}
    /\ delivered.invoked \ delivered.raised # {}
    /\ \E c \in ClientIds : /\ client[c].symbol = delivered.symbol
                            /\ task[c].pc = "recv"
                            /\ task[c].retry_count = 0

\* C6 (its safety part): while callbacks are registered for a symbol and the
\* manager holds its listen task, the listen loop has not ended short of
\* giving up, so that a reconnect attempt can follow every closed socket.
C6_LoopSurvivesClose ==
    \A sym \in DOMAIN tasks :
        Subs(sym) # {} => task[tasks[sym]].pc # "finished"

RECURSIVE Pow2(_)
Pow2(n) == IF n = 0 THEN 1 ELSE 2 * Pow2(n - 1)

\* C7 (as claimed): a listen loop that gave up slept 1, 2, 4, 8 and 16 seconds.
C7_BackoffAsClaimed ==
    \A c \in ClientIds : task[c].pc = "gaveup" => task[c].delays = <<1, 2, 4, 8, 16>>

\* C7 (amended): the i-th delay a listen loop sleeps is 2^(i-1) seconds, never
\* above 30; it sleeps once after each failure but the last, so a loop that
\* gave up at its 5th failure slept 1, 2, 4 and 8 seconds and nothing more.
C7_BackoffSequence ==
    \A c \in ClientIds :
        LET d == task[c].delays
        IN  /\ \A i \in 1..Len(d) : d[i] = Pow2(i - 1) /\ d[i] <= max_retry_delay
            /\ Len(d) < max_retries
            /\ TaskLive(task[c]) => Len(d) = task[c].retry_count
            /\ task[c].pc = "gaveup" => d = <<1, 2, 4, 8>>

\* a listen loop has given up
C7_Witness == \E c \in ClientIds : task[c].pc = "gaveup" /\ Len(task[c].delays) = 4

\* C8: once a listen loop has given up, the socket of its client is
\* released and the manager no longer holds the client, so that
\* get_active_streams() does not report the symbol.
C8_TornDownAfterGiveUp ==
    \A c \in ClientIds :
        task[c].pc = "gaveup" =>
            /\ client[c].websocket = "None"
            /\ ~Tracked(c)
            /\ (Subs(client[c].symbol) # {} => client[c].symbol \notin get_active_streams)

\* the listen loop the manager holds for the symbol has given up
GaveUp(sym) == sym \in DOMAIN tasks /\ task[tasks[sym]].pc = "gaveup"

\* C9: a subscribe call made after the listen loop of its symbol has given
\* up constructs a client and connects it.
C9_ResubscribeRestarts ==
    [][\A p \in Callers, sym \in Instruments :
          (/\ call[p].pc = "idle" /\ call'[p].pc # "idle"
           /\ call'[p].op = "subscribe" /\ call'[p].symbol = sym
           /\ GaveUp(sym))
          => call'[p].pc = "connect"]_vars

\* C10: when an unsubscribe call has returned and its symbol is left without
\* subscriber entry (the last subscriber was removed and the teardown is
\* complete), no listen task of the symbol runs on and no socket of the
\* symbol is open.
C10_StoppedAfterLastUnsubscribe ==
    \A p \in Callers, sym \in Instruments :
        (Returned(p, "unsubscribe", sym) /\ sym \notin DOMAIN subscribers) =>
            /\ RunningTasks(sym) = {}
            /\ OpenSockets(sym) = {}

\* C10 (the listen task itself): a listen task that was cancelled takes no
\* step but the one that ends it, and the client it drove is never connected again.
C10_CancelledTaskStops ==
    [][\A c \in ClientIds :
          task[c].cancel =>
              /\ task'[c] = task[c] \/ task'[c].pc = "cancelled"
              /\ client'[c].websocket = "open" => client[c].websocket = "open"]_vars
\* the listen tasks of a symbol that are awaiting the gather of a broadcast
Broadcasting(sym) == {c \in ClientIds : client[c].symbol = sym /\ task[c].pc = "bcast" /\ Running(c)}

\* C11: within one instrument the callbacks are not invoked with a later
\* tick before the broadcast of an earlier tick has finished: at most one
\* broadcast of the instrument is in progress at any time.
C11_OneBroadcastAtATime ==
    \A sym \in Instruments : Cardinality(Broadcasting(sym)) <= 1

\* C11 (one listen loop): a listen task that awaits the gather of a
\* broadcast receives no further message until that gather has completed.
C11_NoReceiveWhileBroadcasting ==
    [][\A c \in ClientIds :
          (task[c].pc = "bcast" /\ task'[c].pc = "bcast") =>
              /\ task'[c].tick = task[c].tick
              /\ task'[c].snapshot = task[c].snapshot]_vars

\* C12: a malformed message is dropped: a listen loop that waits for a
\* message on an open socket, and is not cancelled, goes on waiting or
\* broadcasts a tick, and its failure count does not change.
C12_MalformedDropped ==
    [][\A c \in ClientIds :
          (/\ task[c].pc = "recv" /\ ~task[c].cancel /\ ~task'[c].cancel
           /\ client[c].websocket = "open" /\ client[c].running)
          => /\ task'[c].pc \in {"recv", "bcast"}
             /\ task'[c].retry_count = task[c].retry_count]_vars

\* ======================================================= cache.py, price_client.py
\* ---------------------------------------------------------------- bounds
MaxTime  == 3            \* instants of the clock after the first
MaxCalls == 3            \* cache and REST calls started
MaxItems == 2            \* items of one upstream response
ttl      == 2            \* OHLCCache(ttl_seconds): self.ttl, in units of the clock

\* ------------------------------------------------- constants of the code
MAX_RETRIES == 3         \* price_client.py: _MAX_RETRIES = 3
RETRY_DELAY == 2         \* price_client.py: _RETRY_DELAY = 2.0

\* the queries of get / set / get_or_fetch: two that differ in the interval
Queries == {[trading_pair |-> "xau_usd", interval |-> i, limit |-> 50, offset |-> 0, sort |-> "desc"]
              : i \in {60, 3600}}

\* (mutant) a key without the sort order
get_cache_key_unsorted(q) == <<q.trading_pair, q.interval, q.limit, q.offset>>

\* _get_cache_key
get_cache_key(q) == <<q.trading_pair, q.interval, q.limit, q.offset, q.sort>>

\* (mutant) an entry that is expired as soon as its age reaches the ttl
IsExpiredAtTtl(timestamp) == now - timestamp >= ttl

\* _is_expired: datetime.now() - timestamp > self.ttl
IsExpired(timestamp) == now - timestamp > ttl

\* (mutant) a lock that is kept by the caller that leaves the block
ExitLockKept(p) == p

\* "async with self.lock": the lock is released when the block is left
ExitLock(p) == "free"

\* lists of parsed candles
Candles(n) == [i \in 1..n |-> "candle"]

\* upstream responses: the request fails, the status is an error, the body
\* is not JSON, or the body is JSON: a list of items, an object with the
\* list under "data" or under "results", an object with neither key
\* ("dict"), or a value that is neither a list nor an object ("scalar");
\* an item parses or does not
ItemSeqs == UNION {[1..n -> {"item", "bad_item"}] : n \in 0..MaxItems}
Shapes == {"list", "data", "results"}
Responses ==
    {[status |-> st, shape |-> "none", items |-> <<>>] : st \in {"request_error", "http_error", "not_json"}}
    \cup {[status |-> "ok", shape |-> sh, items |-> it] : sh \in Shapes, it \in ItemSeqs}
    \cup {[status |-> "ok", shape |-> sh, items |-> <<>>] : sh \in {"dict", "scalar"}}

Failed(e) == [ok |-> FALSE, error |-> e, result |-> <<>>]

\* the for loop over data: OHLCData(...) of every item; the first item that
\* does not parse raises
ParseItems(data) ==
    IF \E i \in 1..Len(data) : data[i] = "bad_item"
    THEN Failed("item")
    ELSE [ok |-> TRUE, error |-> "none", result |-> Candles(Len(data))]

\* one attempt of get_ohlc_data: the body of the try block
Attempt(resp) ==
    IF resp.status # "ok" THEN Failed(resp.status)
    ELSE IF resp.shape = "scalar" THEN Failed("format")
    ELSE IF resp.shape = "dict" THEN ParseItems(<<>>)   \* .get("data", .get("results", []))
    ELSE ParseItems(resp.items)

\* "async with self.lock": the caller that enters the block owns the lock
EnterLock(p) == p

\* the call reads or changes self.cache while the lock has this owner
Access(c, owner) == [c EXCEPT !.held = owner]

\* a call starts
Start(p, op, key) == [NoCall EXCEPT !.op = op, !.key = key]

\* a call returns r, or raises (r = Raised)
Finish(c, r) == [c EXCEPT !.pc = "returned", !.ret = r]

\* (mutant) a set that stores nothing
StoreNothing(key, data) == UNCHANGED <<cache, lastSet>>

\* (mutant) a set that keeps the entry that the key already has
StoreIfAbsent(key, data) ==
    IF key \in DOMAIN cache
    THEN UNCHANGED <<cache, lastSet>>
    ELSE /\ cache' = Put(cache, key, [timestamp |-> now, data |-> data])
         /\ lastSet' = Put(lastSet, key, [timestamp |-> now, data |-> data])

\* self.cache[key] = (datetime.now(), data)
Store(key, data) ==
    /\ cache' = Put(cache, key, [timestamp |-> now, data |-> data])
    /\ lastSet' = Put(lastSet, key, [timestamp |-> now, data |-> data])

\* the lookup of get under the lock: the cache after it and what it returns
Lookup(key) ==
    IF key \in DOMAIN cache
    THEN IF ~IsExpired(cache[key].timestamp)
         THEN [cache |-> cache, ret |-> cache[key].data]
         ELSE [cache |-> Del(cache, key), ret |-> None]
    ELSE [cache |-> cache, ret |-> None]

\* (mutant) a miss fetches only when no other call is fetching the key
MustFetchCoalesced(p, key, cached_data) ==
    /\ cached_data = None
    /\ ~\E o \in Callers \ {p} : req[o].pc \in {"request", "sleep"} /\ req[o].key = key

\* get_or_fetch: "if cached_data is not None: return cached_data", else fetch
MustFetch(p, key, cached_data) == cached_data = None

\* (mutant) an exhausted fetch is stored as an empty list before it is raised
PropagateStoring(p, c) ==
    /\ req' = [req EXCEPT ![p] = Finish(c, Raised)]
    /\ IF c.op = "get_or_fetch"
       THEN /\ Store(c.key, <<>>) /\ UNCHANGED lock
       ELSE UNCHANGED <<cache, lock, lastSet>>

\* "raise last_error": get_or_fetch has no handler around get_ohlc_data, so
\* the error reaches its caller and set is not called
Propagate(p, c) ==
    /\ req' = [req EXCEPT ![p] = Finish(c, Raised)]
    /\ UNCHANGED <<cache, lock, lastSet>>

\* (mutant) one more attempt than _MAX_RETRIES
MayRetryFetchAgain(attempt) == attempt <= MAX_RETRIES

\* "if attempt < _MAX_RETRIES", and the end of range(1, _MAX_RETRIES + 1)
MayRetryFetch(attempt) == attempt < MAX_RETRIES

managerVars == <<subscribers, clients, tasks, client, task, nclients, call, delivered, budget, sent>>

\* what the steps of the cache and of the REST client leave alone
streamVars == <<managerVars, parseVars, multi, asked, batch>>

\* OHLCCache.get
CacheGet(p, q) ==
    /\ req[p].pc = "idle" /\ ncalls < MaxCalls /\ lock = "free"
    /\ LET key == get_cache_key(q)
       IN  /\ cache' = Lookup(key).cache
           /\ req' = [req EXCEPT ![p] = Finish(Access(Start(p, "get", key), EnterLock(p)), Lookup(key).ret)]
    /\ lock' = ExitLock(p)
    /\ ncalls' = ncalls + 1
    /\ UNCHANGED <<now, lastSet, streamVars>>

\* OHLCCache.set
CacheSet(p, q, data) ==
    /\ req[p].pc = "idle" /\ ncalls < MaxCalls /\ lock = "free"
    /\ LET key == get_cache_key(q)
       IN  /\ Store(key, data)
           /\ req' = [req EXCEPT ![p] = Finish(Access(Start(p, "set", key), EnterLock(p)), None)]
    /\ lock' = ExitLock(p)
    /\ ncalls' = ncalls + 1
    /\ UNCHANGED <<now, streamVars>>

\* OHLCCache.get_or_fetch up to its return of the cached data, or to the
\* first request of get_ohlc_data
GetOrFetch(p, q) ==
    /\ req[p].pc = "idle" /\ ncalls < MaxCalls /\ lock = "free"
    /\ LET key == get_cache_key(q)
           c == Access(Start(p, "get_or_fetch", key), EnterLock(p))
       IN  /\ cache' = Lookup(key).cache
           /\ IF MustFetch(p, key, Lookup(key).ret)
              THEN req' = [req EXCEPT ![p] = [c EXCEPT !.pc = "request", !.attempt = 1, !.fetches = 1]]
              ELSE req' = [req EXCEPT ![p] = Finish([c EXCEPT !.hit = TRUE], Lookup(key).ret)]
    /\ lock' = ExitLock(p)
    /\ ncalls' = ncalls + 1
    /\ UNCHANGED <<now, lastSet, streamVars>>

\* get_ohlc_data up to the first "await client.get(url, params=params)"
FirstRequest(p, q) == [Start(p, "get_ohlc_data", get_cache_key(q))
                         EXCEPT !.pc = "request", !.attempt = 1, !.fetches = 1]

\* get_ohlc_data called on its own, up to its first request
GetOhlcData(p, q) ==
    /\ req[p].pc = "idle" /\ ncalls < MaxCalls
    /\ req' = [req EXCEPT ![p] = FirstRequest(p, q)]
    /\ ncalls' = ncalls + 1
    /\ UNCHANGED <<cache, lock, now, lastSet, streamVars>>

\* an attempt returned the parsed list: get_ohlc_data returns it, and
\* get_or_fetch stores it with set before it returns it
AttemptSucceeded(p, resp) ==
    /\ req[p].pc = "request"
    /\ Attempt(resp).ok
    /\ LET c == [req[p] EXCEPT !.resp = resp]
       IN  /\ req' = [req EXCEPT ![p] = Finish(c, Attempt(resp).result)]
           /\ IF c.op = "get_or_fetch"
              THEN /\ lock = "free"
                   /\ Store(c.key, Attempt(resp).result)
                   /\ lock' = ExitLock(p)
              ELSE UNCHANGED <<cache, lastSet, lock>>
    /\ UNCHANGED <<now, ncalls, streamVars>>

\* an attempt raised: last_error = e, and sleep unless it was the last
\* attempt; after the last one last_error is raised
AttemptFailed(p, resp) ==
    /\ req[p].pc = "request"
    /\ ~Attempt(resp).ok
    /\ LET c == [req[p] EXCEPT !.last_error = Attempt(resp).error, !.resp = resp]
       IN  IF MayRetryFetch(c.attempt)
           THEN /\ req' = [req EXCEPT ![p] = [c EXCEPT !.pc = "sleep"]]
                /\ UNCHANGED <<cache, lock, lastSet>>
           ELSE Propagate(p, c)
    /\ UNCHANGED <<now, ncalls, streamVars>>

\* asyncio.sleep(_RETRY_DELAY) returned: the next attempt
RetrySleepDone(p) ==
    /\ req[p].pc = "sleep"
    /\ req' = [req EXCEPT ![p].pc = "request", ![p].attempt = @ + 1,
                          ![p].slept = Append(@, RETRY_DELAY)]
    /\ UNCHANGED <<cache, lock, now, lastSet, ncalls, streamVars>>

\* OHLCCache.clear
CacheClear(p) ==
    /\ req[p].pc = "idle" /\ ncalls < MaxCalls /\ lock = "free"
    /\ cache' = EmptyDict
    /\ lastSet' = EmptyDict
    /\ req' = [req EXCEPT ![p] = Finish(Access(Start(p, "clear", <<>>), EnterLock(p)), None)]
    /\ lock' = ExitLock(p)
    /\ ncalls' = ncalls + 1
    /\ UNCHANGED <<now, streamVars>>

\* OHLCCache.clear_expired
CacheClearExpired(p) ==
    /\ req[p].pc = "idle" /\ ncalls < MaxCalls /\ lock = "free"
    /\ LET expired_keys == {key \in DOMAIN cache : IsExpired(cache[key].timestamp)}
       IN  cache' = [key \in (DOMAIN cache) \ expired_keys |-> cache[key]]
    /\ req' = [req EXCEPT ![p] = Finish(Access(Start(p, "clear_expired", <<>>), EnterLock(p)), None)]
    /\ lock' = ExitLock(p)
    /\ ncalls' = ncalls + 1
    /\ UNCHANGED <<now, lastSet, streamVars>>

\* OHLCCache.get_cache_stats: a plain function, without "async with
\* self.lock"; it reads self.cache whoever owns the lock
GetCacheStats(p) ==
    /\ req[p].pc = "idle" /\ ncalls < MaxCalls
    /\ LET total_entries == Cardinality(DOMAIN cache)
           expired_entries == Cardinality({key \in DOMAIN cache : IsExpired(cache[key].timestamp)})
       IN  req' = [req EXCEPT ![p] = Finish(Access(Start(p, "get_cache_stats", <<>>), lock),
                                            <<"stats", total_entries, expired_entries>>)]
    /\ ncalls' = ncalls + 1
    /\ UNCHANGED <<cache, lock, now, lastSet, streamVars>>

\* the caller runs on after the awaited call
CacheResume(p) ==
    /\ req[p].pc = "returned"
    /\ req' = [req EXCEPT ![p] = NoCall]
    /\ UNCHANGED <<cache, lock, now, lastSet, ncalls, streamVars>>

\* time passes
ClockTick ==
    /\ now < MaxTime
    /\ now' = now + 1
    /\ UNCHANGED <<cache, lock, req, lastSet, ncalls, streamVars>>

\* the cache in front of an upstream whose requests fail or answer with a
\* list of at most one item, which parses; the payloads it can hold
CacheResponses == {r \in Responses : r.shape \in {"none", "list"} /\ r.status \in {"request_error", "ok"}
                                     /\ Len(r.items) <= 1
                                     /\ \A i \in 1..Len(r.items) : r.items[i] = "item"}
CachePayloads == {Candles(0), Candles(1)}

NextCache ==
    \/ \E p \in Callers, q \in Queries : CacheGet(p, q)
    \/ \E p \in Callers, q \in Queries, data \in CachePayloads : CacheSet(p, q, data)
    \/ \E p \in Callers, q \in Queries : GetOrFetch(p, q)
    \/ \E p \in Callers, resp \in CacheResponses : AttemptSucceeded(p, resp)
    \/ \E p \in Callers, resp \in CacheResponses : AttemptFailed(p, resp)
    \/ \E p \in Callers : RetrySleepDone(p)
    \/ \E p \in Callers : CacheClear(p)
    \/ \E p \in Callers : CacheClearExpired(p)
    \/ \E p \in Callers : GetCacheStats(p)
    \/ \E p \in Callers : CacheResume(p)
    \/ ClockTick

InitIdle == InitManager /\ budget = 0

SpecCache == InitIdle /\ [][NextCache]_vars

\* get_ohlc_data called by one caller
NextFetch ==
    \/ \E p \in Solo, q \in Queries : GetOhlcData(p, q)
    \/ \E p \in Solo, resp \in Responses : AttemptSucceeded(p, resp)
    \/ \E p \in Solo, resp \in Responses : AttemptFailed(p, resp)
    \/ \E p \in Solo : RetrySleepDone(p)
    \/ \E p \in Solo : CacheResume(p)

SpecFetch == InitIdle /\ [][NextFetch]_vars

\* ------------------------------------------------------------ observations
Fetching(p) == req[p].pc \in {"request", "sleep"}
ReturnedFrom(p, op) == req[p].pc = "returned" /\ req[p].op = op

\* the step in which caller p calls op and the call runs up to its first await or its return
Calls(p, op) == req[p].pc = "idle" /\ req'[p].pc # "idle" /\ req'[p].op = op

\* the time elapsed since the last set on the key
Elapsed(key) == now - lastSet[key].timestamp

\* C13: a get returns exactly the payload of the last set on its key when
\* at most ttl has elapsed since that set (exactly ttl included); when more
\* has elapsed it returns a miss and the entry is gone.
C13_GetWithinTtl ==
    [][\A p \in Callers :
          (Calls(p, "get") /\ req'[p].key \in DOMAIN lastSet) =>
              LET key == req'[p].key
              IN  /\ req'[p].pc = "returned"
                  /\ Elapsed(key) <= ttl => req'[p].ret = lastSet[key].data
                  /\ Elapsed(key) > ttl => req'[p].ret = None /\ key \notin DOMAIN cache']_vars

\* a get has returned the payload of a set made exactly ttl before
C13_Witness ==
    \E p \in Callers :
        /\ ReturnedFrom(p, "get")
        /\ req[p].key \in DOMAIN lastSet
        /\ Elapsed(req[p].key) = ttl
        /\ req[p].ret = lastSet[req[p].key].data

\* the key is missing from the cache, or its entry is older than ttl
MissingOrExpired(key) == key \notin DOMAIN cache \/ now - cache[key].timestamp > ttl

\* C14: get_or_fetch on a missing or expired key makes exactly one upstream
\* fetch, and when the fetch returns its result is stored under the key in
\* the step that returns it; on a key whose entry is within ttl it returns
\* the cached payload and makes no upstream fetch.
C14_MissFetchStore ==
    [][\A p \in Callers :
          /\ Calls(p, "get_or_fetch") =>
                LET key == req'[p].key
                IN  IF MissingOrExpired(key)
                    THEN req'[p].pc = "request" /\ req'[p].fetches = 1 /\ req'[p].attempt = 1
                    ELSE /\ req'[p].pc = "returned" /\ req'[p].fetches = 0
                         /\ req'[p].ret = cache[key].data
                         /\ cache' = cache
          /\ (req[p].op = "get_or_fetch" /\ Fetching(p)) =>
                /\ req'[p].fetches = 1
                /\ (req'[p].pc = "returned" /\ req'[p].ret # Raised) =>
                      /\ req'[p].key \in DOMAIN cache'
                      /\ cache'[req'[p].key] = [timestamp |-> now, data |-> req'[p].ret]]_vars

\* a get_or_fetch that missed has returned what it fetched, and the cache
\* holds it; the other caller's get_or_fetch has returned it from the cache
C14_Witness ==
    \E p, o \in Callers :
        /\ ReturnedFrom(p, "get_or_fetch") /\ ~req[p].hit /\ req[p].ret = Candles(1)
        /\ req[p].key \in DOMAIN cache /\ cache[req[p].key].data = req[p].ret
        /\ ReturnedFrom(o, "get_or_fetch") /\ req[o].hit /\ req[o].ret = req[p].ret
        /\ req[o].key = req[p].key

\* C15: when the upstream fetch of a get_or_fetch fails, the call raises to
\* its caller after the last attempt, and no step of the call in which no
\* attempt succeeds stores an entry: the cache, every key of it, is as it
\* was before the step.
C15_FailedFetchStoresNothing ==
    [][\A p \in Callers :
          (/\ req[p].op = "get_or_fetch" /\ Fetching(p) /\ req'[p] # req[p]
           /\ ~Attempt(req'[p].resp).ok)
          => /\ cache' = cache
             /\ req'[p].pc = "returned" =>
                   /\ req'[p].ret = Raised
                   /\ req'[p].attempt = MAX_RETRIES]_vars

\* a get_or_fetch has raised while the cache holds an entry of another key
\* and none of its own key
C15_Witness ==
    \E p \in Callers :
        /\ ReturnedFrom(p, "get_or_fetch") /\ req[p].ret = Raised
        /\ req[p].key \notin DOMAIN cache
        /\ \E key \in DOMAIN cache : key # req[p].key

\* C16: while a get_or_fetch is suspended in its upstream fetch the lock is
\* free, and a caller that is not in a call can run get, set, get_or_fetch,
\* clear and clear_expired on any key to their return or first await.
C16_LockFreeWhileFetching ==
    (\E p \in Callers : req[p].op = "get_or_fetch" /\ Fetching(p)) =>
        /\ lock = "free"
        /\ \A o \in Callers :
              (req[o].pc = "idle" /\ ncalls < MaxCalls) =>
                  /\ \A q \in Queries : ENABLED CacheGet(o, q)
                  /\ \A q \in Queries : ENABLED GetOrFetch(o, q)
                  /\ \A q \in Queries, data \in CachePayloads : ENABLED CacheSet(o, q, data)
                  /\ ENABLED CacheClear(o)
                  /\ ENABLED CacheClearExpired(o)

\* get_or_fetch calls on different keys are suspended in their fetches at
\* the same time: the later one took the lock while the earlier one waited
C16_Witness ==
    \E p, o \in Callers :
        /\ req[p].op = "get_or_fetch" /\ Fetching(p)
        /\ req[o].op = "get_or_fetch" /\ Fetching(o)
        /\ req[p].key # req[o].key

\* the callers other than p that are fetching the key
InFlight(p, key) == {o \in Callers \ {p} : req[o].op = "get_or_fetch" /\ Fetching(o) /\ req[o].key = key}

\* C17: get_or_fetch does not coalesce: a call on a missing or expired key
\* starts its own upstream fetch also while another call is fetching the
\* same key, and it waits for no other call.
C17_NoCoalescing ==
    [][\A p \in Callers :
          (Calls(p, "get_or_fetch") /\ MissingOrExpired(req'[p].key) /\ InFlight(p, req'[p].key) # {})
          => /\ req'[p].pc = "request"
             /\ req'[p].fetches = 1
             /\ \A o \in InFlight(p, req'[p].key) : req'[o] = req[o]]_vars

\* two upstream fetches for one key are in flight at the same time
C17_Witness ==
    \E p \in Callers : Fetching(p) /\ req[p].op = "get_or_fetch" /\ InFlight(p, req[p].key) # {}

\* C18: get_ohlc_data makes at most 3 attempts and sleeps the fixed 2
\* seconds between two consecutive attempts and at no other time; when all 3
\* attempts fail it raises the error of the last one; when its k-th attempt
\* succeeds it returns the list of that attempt after exactly k attempts.
C18_ThreeAttempts ==
    \A p \in Callers :
        req[p].op = "get_ohlc_data" =>
            /\ req[p].attempt \in 1..3
            /\ Len(req[p].slept) = req[p].attempt - 1
            /\ req[p].pc = "sleep" => req[p].attempt < 3
            /\ \A i \in 1..Len(req[p].slept) : req[p].slept[i] = 2
            /\ req[p].pc = "returned" =>
                  IF req[p].ret = Raised
                  THEN /\ req[p].attempt = 3
                       /\ req[p].slept = <<2, 2>>
                       /\ ~Attempt(req[p].resp).ok
                       /\ req[p].last_error = Attempt(req[p].resp).error
                  ELSE /\ Attempt(req[p].resp).ok
                       /\ req[p].ret = Attempt(req[p].resp).result

\* a fetch has raised after its attempts failed in three different ways
C18_Witness ==
    \E p \in Callers :
        /\ ReturnedFrom(p, "get_ohlc_data") /\ req[p].ret = Raised
        /\ req[p].last_error = "item"
        /\ req[p].slept = <<2, 2>>

\* C19: get_ohlc_data returns a list only when one attempt fully succeeded:
\* the request was answered with a list of items (bare, or under "data" or
\* "results") and the list returned has one candle for every item; so an
\* empty list is returned only for an answer with zero items.
C19_ListOnlyOnSuccess ==
    \A p \in Callers :
        (ReturnedFrom(p, "get_ohlc_data") /\ req[p].ret # Raised) =>
            /\ req[p].resp.status = "ok"
            /\ req[p].resp.shape \in Shapes
            /\ \A i \in 1..Len(req[p].resp.items) : req[p].resp.items[i] = "item"
            /\ req[p].ret = Candles(Len(req[p].resp.items))

\* C19 (no partial list): an attempt whose request, decoding or parsing of
\* any one item fails returns nothing and counts as a failed attempt, and a
\* list that is returned has a candle for every item of the answer.
C19_NoPartialList ==
    [][\A p \in Callers :
          (req[p].pc = "request" /\ req'[p] # req[p]) =>
              LET resp == req'[p].resp
                  bad == \/ resp.status # "ok"
                         \/ \E i \in 1..Len(resp.items) : resp.items[i] = "bad_item"
              IN  /\ bad => /\ req'[p].ret \in {None, Raised}
                            /\ req'[p].pc = "sleep" \/ (req'[p].pc = "returned" /\ req[p].attempt = 3)
                  /\ req'[p].ret \notin {None, Raised} => req'[p].ret = Candles(Len(resp.items))]_vars

\* ============================================================ two instruments
TwoInstruments == {"XAU_USD", "XAG_USD"}

\* a run in which no more streams are started than there are instruments
StreamsLeft(sym) == NeedsStream(sym) => nclients < Cardinality(TwoInstruments)

\* one downstream handler that subscribes to and unsubscribes from two
\* instruments, one call at a time
NextFrame ==
    \/ \E p \in Solo, sym \in TwoInstruments : StreamsLeft(sym) /\ Subscribe(p, sym)
    \/ \E p \in Solo : StartStreamConnected(p)
    \/ \E p \in Solo : StartStreamConnectFailed(p)
    \/ \E p \in Solo, sym \in TwoInstruments : Unsubscribe(p, sym)
    \/ \E p \in Solo : StopStreamClosed(p)
    \/ \E p \in Solo : Resume(p)
    \/ \E c \in ClientIds : PeerClose(c)
    \/ \E c \in ClientIds : TaskStart(c)
    \/ \E c \in ClientIds : TaskListenConnected(c)
    \/ \E c \in ClientIds : TaskListenConnectFailed(c)
    \/ \E c \in ClientIds : TaskRecvTick(c)
    \/ \E c \in ClientIds : TaskRecvMalformed(c)
    \/ \E c \in ClientIds : TaskRecvClosed(c)
    \/ \E c \in ClientIds : \E raising \in SUBSET Callers : TaskBroadcastDone(c, raising)
    \/ \E c \in ClientIds : TaskSleepDone(c)
    \/ \E c \in ClientIds : TaskDisconnected(c)
    \/ \E c \in ClientIds : TaskReconnected(c)
    \/ \E c \in ClientIds : TaskReconnectFailed(c)
    \/ \E c \in ClientIds : TaskCancelled(c)

\* an upstream that fails just often enough to exhaust one listen loop
InitFrame == InitManager /\ budget = max_retries

SpecFrame == InitFrame /\ [][NextFrame]_vars

\* the state the manager holds for one instrument: its subscriber set, its
\* entries in self.clients and self.tasks, and its client objects and tasks
InstrumentState(sym) ==
    <<Subs(sym), sym \in DOMAIN subscribers,
      IF sym \in DOMAIN clients THEN clients[sym] ELSE 0,
      IF sym \in DOMAIN tasks THEN tasks[sym] ELSE 0,
      [c \in ClientIds |-> IF client[c].symbol = sym THEN <<client[c], task[c]>> ELSE <<>>]>>

\* C20: every step (a subscribe, an unsubscribe, a failed connect, a listen
\* failure, a reconnect, a loop that gives up) changes the state of at most
\* one instrument: the subscriber set, the connection and the listen task
\* of every other instrument are left as they were.
C20_OtherInstrumentsUnchanged ==
    [][\A sym \in TwoInstruments, other \in TwoInstruments :
          (sym # other /\ InstrumentState(sym)' # InstrumentState(sym))
          => InstrumentState(other)' = InstrumentState(other)]_vars

\* the listen loop of one instrument has given up while the other
\* instrument has a subscriber and a listen loop that never failed
C20_Witness ==
    \E sym \in TwoInstruments, other \in TwoInstruments :
        /\ sym # other
        /\ GaveUp(sym)
        /\ Subs(other) # {} /\ other \in DOMAIN tasks
        /\ task[tasks[other]].pc = "recv" /\ task[tasks[other]].retry_count = 0

\* ================================================= PriceWebSocketClient alone
\* (mutant) a disconnect that closes only a socket that is still open
HasOpenWebsocket(cl) == cl.websocket = "open"

\* disconnect: "if self.websocket"
HasWebsocket(cl) == cl.websocket # "None"

\* a call on the client object c by caller p is suspended at pc, or has returned
ClientCall(p, pc, op, c, r) ==
    [call EXCEPT ![p] = [pc |-> pc, op |-> op, symbol |-> client[c].symbol, client |-> c, ret |-> r]]

\* PriceWebSocketClient(symbol)
ClientInit(p, sym) ==
    /\ call[p].pc = "idle"
    /\ nclients < MaxClients
    /\ nclients' = nclients + 1
    /\ client' = [client EXCEPT ![nclients + 1] = NewClient(sym)]
    /\ call' = [call EXCEPT ![p] = [pc |-> "returned", op |-> "init", symbol |-> sym,
                                    client |-> nclients + 1, ret |-> "ok"]]
    /\ UNCHANGED <<subscribers, clients, tasks, task, delivered, budget, sent, cacheVars>>

\* connect, up to the await of websockets.connect
ClientConnect(p, c) ==
    /\ call[p].pc = "idle"
    /\ client[c].symbol # "none"
    /\ call' = ClientCall(p, "connect", "connect", c, "none")
    /\ UNCHANGED <<subscribers, clients, tasks, client, task, nclients, delivered, budget, sent, cacheVars>>

\* websockets.connect returned: self.websocket = ..., self.running = True
ClientConnected(p) ==
    /\ call[p].pc = "connect" /\ call[p].op = "connect"
    /\ client' = [client EXCEPT ![call[p].client].websocket = "open", ![call[p].client].running = TRUE]
    /\ call' = ClientCall(p, "returned", "connect", call[p].client, "ok")
    /\ UNCHANGED <<subscribers, clients, tasks, task, nclients, delivered, budget, sent, cacheVars>>

\* websockets.connect raised
ClientConnectFailed(p) ==
    /\ call[p].pc = "connect" /\ call[p].op = "connect"
    /\ sent < budget
    /\ sent' = sent + 1
    /\ call' = ClientCall(p, "returned", "connect", call[p].client, "raised")
    /\ UNCHANGED <<subscribers, clients, tasks, client, task, nclients, delivered, budget, cacheVars>>

\* disconnect, up to the await of websocket.close(), or to its return when
\* there is no websocket
ClientDisconnect(p, c) ==
    /\ call[p].pc = "idle"
    /\ client[c].symbol # "none"
    /\ client' = [client EXCEPT ![c].running = FALSE]
    /\ IF HasWebsocket(client[c])
       THEN call' = ClientCall(p, "close", "disconnect", c, "none")
       ELSE call' = ClientCall(p, "returned", "disconnect", c, "nothing to close")
    /\ UNCHANGED <<subscribers, clients, tasks, task, nclients, delivered, budget, sent, cacheVars>>

\* websocket.close() returned: self.websocket = None
ClientDisconnectClosed(p) ==
    /\ call[p].pc = "close" /\ call[p].op = "disconnect"
    /\ client' = [client EXCEPT ![call[p].client].websocket = "None"]
    /\ call' = ClientCall(p, "returned", "disconnect", call[p].client, "closed")
    /\ UNCHANGED <<subscribers, clients, tasks, task, nclients, delivered, budget, sent, cacheVars>>

\* one owner that constructs client objects and connects and disconnects
\* them, one call at a time, on an upstream that may refuse and may close
NextClient ==
    \/ \E p \in Solo, sym \in Instruments : ClientInit(p, sym)
    \/ \E p \in Solo, c \in ClientIds : ClientConnect(p, c)
    \/ \E p \in Solo : ClientConnected(p)
    \/ \E p \in Solo : ClientConnectFailed(p)
    \/ \E p \in Solo, c \in ClientIds : ClientDisconnect(p, c)
    \/ \E p \in Solo : ClientDisconnectClosed(p)
    \/ \E p \in Solo : Resume(p)
    \/ \E c \in ClientIds : PeerClose(c)

SpecClient == Init /\ [][NextClient]_vars

\* C21: disconnect can be called in every state of the client object; when
\* it returns the object holds no socket and is not running; and a
\* disconnect of an object that holds no socket and is not running returns
\* without closing anything and leaves the object as it is.
C21_DisconnectIdempotent ==
    [][\A p \in Callers :
          /\ (call[p].pc = "idle" /\ \E c \in ClientIds : client[c].symbol # "none")
                => \A c \in ClientIds : client[c].symbol # "none" => ENABLED ClientDisconnect(p, c)
          /\ (call'[p].op = "disconnect" /\ call'[p].pc = "returned" /\ call[p].pc # "returned") =>
                /\ client'[call'[p].client].websocket = "None"
                /\ ~client'[call'[p].client].running
          /\ (/\ call[p].pc = "idle" /\ call'[p].op = "disconnect"
              /\ client[call'[p].client].websocket = "None" /\ ~client[call'[p].client].running)
             => /\ call'[p].pc = "returned" /\ call'[p].ret = "nothing to close"
                /\ client' = client]_vars

\* after an upstream failure a disconnect has closed the socket of an
\* object, which is left without socket
C21_Witness ==
    \E p \in Callers :
        /\ call[p].op = "disconnect" /\ call[p].pc = "returned" /\ call[p].ret = "closed"
        /\ sent > 0
        /\ client[call[p].client].websocket = "None"

\* C22: every call that read or changed the cache map (get, set,
\* get_or_fetch, clear, clear_expired, get_cache_stats) owned the lock while
\* it did so, and the lock is free whenever a call has ended.
C22_MapAccessUnderLock ==
    \A p \in Callers :
        req[p].pc = "returned" /\ req[p].op # "get_ohlc_data"
            => req[p].held = p /\ lock = "free"

\* the coroutines get, set, get_or_fetch, clear and clear_expired own the
\* lock during their map access and leave it free
C22_CoroutinesUnderLock ==
    \A p \in Callers :
        req[p].pc = "returned" /\ req[p].op \notin {"get_ohlc_data", "get_cache_stats"}
            => req[p].held = p /\ lock = "free"

\* ====================================== websocket_client.py: receive_tick
MaxPrice  == 1           \* the bid and ask values of a frame are 0..MaxPrice
MaxValues == 2           \* elements of the values array of a wrapped frame

\* ------------------------------------------------------- Python and JSON
\* a JSON number, string and array; None is the JSON null and the result of
\* dict.get for a key that is absent; a JSON object is a function of its keys
Num(n) == <<"num", n>>
Str(x) == <<"str", x>>
List(xs) == <<"list", xs>>

\* isinstance(x, list)
IsList(x) == x[1] = "list"

\* bool(x), as "or" and "if" evaluate it
Truthy(x) == x # None /\ x # Num(0) /\ x # Str("")

\* x or y
PyOr(x, y) == IF Truthy(x) THEN x ELSE y

\* d.get(k, default)
DictGetDefault(d, k, default) == IF k \in DOMAIN d THEN d[k] ELSE default

\* d.get(k)
DictGet(d, k) == DictGetDefault(d, k, None)

\* float(x) of a number
Float(x) == x[2]

\* timestamp_str.replace(" ", "T")
ReplaceSpace(x) == IF x = "2024-12-26 08:10:00" THEN "2024-12-26T08:10:00" ELSE x

\* the strings that datetime.fromisoformat accepts
IsIsoFormat(x) == x \in {"2024-12-26T08:10:00"}

\* the parse of the timestamp: fromisoformat of the string, and
\* datetime.now() for a string that does not parse or is absent or empty
ParseTimestamp(timestamp_str) ==
    IF Truthy(timestamp_str) /\ IsIsoFormat(ReplaceSpace(timestamp_str[2]))
    THEN <<"datetime", ReplaceSpace(timestamp_str[2])>>
    ELSE <<"now", now>>

NoTick == <<>>
TickError(e) == [ok |-> FALSE, error |-> e, tick |-> NoTick]
TickData(symbol, bid, ask, timestamp, spread) ==
    [ok |-> TRUE, error |-> "none",
     tick |-> [symbol |-> symbol, bid |-> bid, ask |-> ask, timestamp |-> timestamp, spread |-> spread]]

\* data["values"][-1]
LatestOfValues(values) == values[Len(values)]

\* receive_tick after recv(): json.loads, then the wrapped format, the
\* direct format, or an unknown format
receive_tick(symbol, m) ==
    IF ~m.json THEN TickError("JSONDecodeError")
    ELSE LET data == m.data
         IN  IF "values" \in DOMAIN data /\ IsList(data["values"])
             THEN LET values == data["values"][2]
                  IN  IF Len(values) = 0 THEN TickError("ValueError")
                      ELSE LET latest_tick == LatestOfValues(values)
                               bid == PyOr(DictGet(latest_tick, "bid_price"), DictGet(latest_tick, "bid"))
                               ask == PyOr(DictGet(latest_tick, "ask_price"), DictGet(latest_tick, "ask"))
                               timestamp_str == PyOr(DictGet(latest_tick, "date_time"),
                                                     DictGet(latest_tick, "timestamp"))
                           IN  IF bid = None \/ ask = None THEN TickError("ValueError")
                               ELSE TickData(DictGetDefault(latest_tick, "symbol", symbol),
                                             Float(bid), Float(ask), ParseTimestamp(timestamp_str),
                                             Float(ask) - Float(bid))
             ELSE IF {"bid", "ask", "bid_price", "ask_price"} \cap DOMAIN data # {}
             THEN LET bid == PyOr(DictGet(data, "bid_price"), DictGet(data, "bid"))
                      ask == PyOr(DictGet(data, "ask_price"), DictGet(data, "ask"))
                      timestamp_str == PyOr(DictGet(data, "date_time"), DictGet(data, "timestamp"))
                      spread == DictGet(data, "spread")
                  IN  IF bid = None \/ ask = None THEN TickError("ValueError")
                      ELSE TickData(DictGetDefault(data, "symbol", symbol),
                                    Float(bid), Float(ask), ParseTimestamp(timestamp_str),
                                    IF spread = None THEN Float(ask) - Float(bid) ELSE Float(spread))
             ELSE TickError("ValueError")

\* ----------------------------------------------------------- the frames
Prices == 0..MaxPrice
TimeStrings == {"2024-12-26 08:10:00", "2024-12-26T08:10:00", "soon"}
ValidTimes == {t \in TimeStrings : IsIsoFormat(ReplaceSpace(t))}

Json(data) == [json |-> TRUE, data |-> data]
NotJson == [json |-> FALSE, data |-> <<>>]

WrappedItem(b, a, t) == ("bid_price" :> Num(b)) @@ ("ask_price" :> Num(a)) @@ ("date_time" :> Str(t))
Wrapped(values) == Json("values" :> List(values))
Flat(b, a, t) == Json(("bid" :> Num(b)) @@ ("ask" :> Num(a)) @@ ("timestamp" :> Str(t)))
FlatWithSpread(b, a, t, sp) == Json(Flat(b, a, t).data @@ ("spread" :> Num(sp)))

WrappedItems ==
    {WrappedItem(b, a, t) : b \in Prices, a \in Prices, t \in TimeStrings}
    \cup {"bid_price" :> Num(b) : b \in Prices}

\* the elements of the longer arrays differ in bid and ask
TimedItems == {WrappedItem(b, a, "2024-12-26 08:10:00") : b \in Prices, a \in Prices}

Frames ==
    {NotJson, Json("type" :> Str("ping"))}
    \cup {Wrapped(<<it>>) : it \in WrappedItems}
    \cup {Wrapped(values) : values \in UNION {[1..n -> TimedItems] : n \in 0..MaxValues}}
    \cup {Flat(b, a, t) : b \in Prices, a \in Prices, t \in TimeStrings}
    \cup {FlatWithSpread(b, a, t, sp) : b \in Prices, a \in Prices, t \in ValidTimes, sp \in Prices}
    \cup {Json("ask" :> Num(a)) : a \in Prices}

\* one iteration of the loop of listen: tick = await self.receive_tick();
\* await callback(tick). The model follows the first frame of a connection.
ListenReceive(symbol, m) ==
    /\ message = NoMessage
    /\ message' = m
    /\ LET r == receive_tick(symbol, m)
       IN  outcome' = [ok |-> r.ok, error |-> r.error, ticks |-> IF r.ok THEN <<r.tick>> ELSE <<>>]
    /\ UNCHANGED <<managerVars, pollVars, item, parsed, multi, asked, batch>>

NextTicks ==
    \/ \E sym \in Instruments, m \in Frames : ListenReceive(sym, m)
    \/ ClockTick

SpecTicks == InitIdle /\ [][NextTicks]_vars

\* the ticks that the loop hands to its callback for frame m
Handed(symbol, m) == IF receive_tick(symbol, m).ok THEN <<receive_tick(symbol, m).tick>> ELSE <<>>

\* frame m was received and produced one tick with this bid, ask and spread
Produced(m, b, a, sp) ==
    message = m => /\ Len(outcome.ticks) = 1
                   /\ outcome.ticks[1].bid = b /\ outcome.ticks[1].ask = a
                   /\ outcome.ticks[1].spread = sp

\* C23: a wrapped frame {values: [{bid_price, ask_price, date_time}]} and a
\* flat frame {bid, ask, timestamp} with the same bid, ask and time each
\* produce a tick, with that bid and ask, spread = ask - bid, and the same
\* timestamp as the other frame produces, for every bid and ask in Prices.
C23_WrappedEqualsFlat ==
    \A sym \in Instruments, b \in Prices, a \in Prices, t \in ValidTimes :
        /\ Produced(Wrapped(<<WrappedItem(b, a, t)>>), b, a, a - b)
        /\ Produced(Flat(b, a, t), b, a, a - b)
        /\ message = Wrapped(<<WrappedItem(b, a, t)>>) => outcome.ticks = Handed(sym, Flat(b, a, t))
        /\ message = Flat(b, a, t) => outcome.ticks = Handed(sym, Wrapped(<<WrappedItem(b, a, t)>>))

\* the same for every bid and ask other than 0
C23_EqualForNonZero ==
    \A sym \in Instruments, b \in Prices \ {0}, a \in Prices \ {0}, t \in ValidTimes :
        /\ Produced(Wrapped(<<WrappedItem(b, a, t)>>), b, a, a - b)
        /\ Produced(Flat(b, a, t), b, a, a - b)
        /\ message = Wrapped(<<WrappedItem(b, a, t)>>) => outcome.ticks = Handed(sym, Flat(b, a, t))
        /\ message = Flat(b, a, t) => outcome.ticks = Handed(sym, Wrapped(<<WrappedItem(b, a, t)>>))

\* C25: for a wrapped frame with k >= 1 elements, each with a bid, an ask
\* and a time, exactly one tick is handed to the callback, and it has the
\* bid and ask of the last element of the array.
C25_OneTickFromLast ==
    \A values \in UNION {[1..n -> TimedItems] : n \in 1..MaxValues} :
        Produced(Wrapped(values), values[Len(values)]["bid_price"][2], values[Len(values)]["ask_price"][2],
                 values[Len(values)]["ask_price"][2] - values[Len(values)]["bid_price"][2])

\* a wrapped frame with k >= 1 elements is handed to the callback as the
\* frame of its last element alone would be: at most one tick, none built
\* from an earlier element, and exactly one tick with the bid and ask of
\* the last element when these are not 0
C25_LastElementOnly ==
    \A sym \in Instruments, values \in UNION {[1..n -> TimedItems] : n \in 1..MaxValues} :
        message = Wrapped(values) =>
            LET last == values[Len(values)]
            IN  /\ outcome.ticks = Handed(sym, Wrapped(<<last>>))
                /\ Len(outcome.ticks) <= 1
                /\ (last["bid_price"] # Num(0) /\ last["ask_price"] # Num(0)) =>
                      /\ Len(outcome.ticks) = 1
                      /\ outcome.ticks[1].bid = last["bid_price"][2]
                      /\ outcome.ticks[1].ask = last["ask_price"][2]
                      /\ outcome.ticks[1].spread = last["ask_price"][2] - last["bid_price"][2]

\* a frame of two elements with different asks was received and one tick,
\* with the ask of the second, was handed to the callback
C25_Witness ==
    /\ message.json /\ "values" \in DOMAIN message.data
    /\ LET values == message.data["values"][2]
       IN  /\ Len(values) = 2
           /\ values[1]["ask_price"] # values[2]["ask_price"]
           /\ Len(outcome.ticks) = 1
           /\ outcome.ticks[1].ask = values[2]["ask_price"][2]

\* ================================= price_client.py: the parse of one item
\* pydantic's validation of OHLCData.timestamp: a datetime for a string in
\* ISO format, with "T" or a space between date and time
ValidateTimestamp(x) ==
    IF x # None /\ x[1] = "str" /\ IsIsoFormat(ReplaceSpace(x[2]))
    THEN <<"datetime", ReplaceSpace(x[2])>>
    ELSE <<"invalid">>

\* float(x) if x is not None else None
OptionalFloat(x) == IF x # None THEN <<"float", Float(x)>> ELSE None

ItemError(e) == [ok |-> FALSE, error |-> e, candle |-> <<>>]

\* the body of "for item in data": the six fields under either name, then
\* OHLCData(...); float(None) raises TypeError, a timestamp that is not a
\* datetime raises ValidationError
ParseItem(trading_pair, it) ==
    LET timestamp   == PyOr(PyOr(DictGet(it, "Date_time"), DictGet(it, "timestamp")), DictGet(it, "Timestamp"))
        open_price  == PyOr(DictGet(it, "Open"), DictGet(it, "open"))
        high_price  == PyOr(DictGet(it, "High"), DictGet(it, "high"))
        low_price   == PyOr(DictGet(it, "Low"), DictGet(it, "low"))
        close_price == PyOr(DictGet(it, "Close"), DictGet(it, "close"))
        volume      == PyOr(DictGet(it, "Volume"), DictGet(it, "volume"))
    IN  IF None \in {open_price, high_price, low_price, close_price} THEN ItemError("TypeError")
        ELSE IF ValidateTimestamp(timestamp) = <<"invalid">> THEN ItemError("ValidationError")
        ELSE [ok |-> TRUE, error |-> "none",
              candle |-> [timestamp |-> ValidateTimestamp(timestamp),
                          open |-> Float(open_price), high |-> Float(high_price),
                          low |-> Float(low_price), close |-> Float(close_price),
                          volume |-> OptionalFloat(volume), trading_pair |-> trading_pair]]

\* the items: the six fields under capitalised or under lower-case names,
\* with or without a volume
Capitalised(t, o, h, l, c) ==
    ("Date_time" :> Str(t)) @@ ("Open" :> Num(o)) @@ ("High" :> Num(h)) @@ ("Low" :> Num(l)) @@ ("Close" :> Num(c))
LowerCase(t, o, h, l, c) ==
    ("timestamp" :> Str(t)) @@ ("open" :> Num(o)) @@ ("high" :> Num(h)) @@ ("low" :> Num(l)) @@ ("close" :> Num(c))
WithVolume(it, key, v) == it @@ (key :> Num(v))

Items ==
    {Capitalised(t, o, h, l, c) : t \in TimeStrings, o \in Prices, h \in Prices, l \in Prices, c \in Prices}
    \cup {LowerCase(t, o, h, l, c) : t \in TimeStrings, o \in Prices, h \in Prices, l \in Prices, c \in Prices}
    \cup {WithVolume(Capitalised(t, o, o, o, c), "Volume", v) : t \in ValidTimes, o \in Prices, c \in Prices, v \in Prices}
    \cup {WithVolume(LowerCase(t, o, o, o, c), "volume", v) : t \in ValidTimes, o \in Prices, c \in Prices, v \in Prices}
    \cup {"Open" :> Num(o) : o \in Prices}

\* get_ohlc_data parses an item of the response; the model follows the
\* first item
ParseFirstItem(q, it) ==
    /\ item = NoItem
    /\ item' = it
    /\ parsed' = ParseItem(q.trading_pair, it)
    /\ UNCHANGED <<managerVars, pollVars, message, outcome, multi, asked, batch>>

NextItems ==
    \/ \E q \in Queries, it \in Items : ParseFirstItem(q, it)

SpecItems == InitIdle /\ [][NextItems]_vars

\* the parsed item had these values under capitalised, or under lower-case,
\* names
ItemIs(t, o, h, l, c) == item \in {Capitalised(t, o, h, l, c), LowerCase(t, o, h, l, c)}
ItemWithVolumeIs(t, o, c, v) ==
    item \in {WithVolume(Capitalised(t, o, o, o, c), "Volume", v), WithVolume(LowerCase(t, o, o, o, c), "volume", v)}

\* C24: an item with the capitalised names and an item with the lower-case
\* names that carry the same values parse to the identical candle, with
\* those values, for every value in Prices.
C24_CasingIrrelevant ==
    \A q \in Queries, t \in ValidTimes, o \in Prices, c \in Prices :
        /\ \A h \in Prices, l \in Prices :
              ItemIs(t, o, h, l, c) =>
                  /\ parsed = ParseItem(q.trading_pair, Capitalised(t, o, h, l, c))
                  /\ parsed = ParseItem(q.trading_pair, LowerCase(t, o, h, l, c))
                  /\ parsed.ok /\ parsed.candle.open = o /\ parsed.candle.close = c
        /\ \A v \in Prices :
              ItemWithVolumeIs(t, o, c, v) =>
                  /\ parsed = ParseItem(q.trading_pair, WithVolume(Capitalised(t, o, o, o, c), "Volume", v))
                  /\ parsed = ParseItem(q.trading_pair, WithVolume(LowerCase(t, o, o, o, c), "volume", v))
                  /\ parsed.ok /\ parsed.candle.volume = <<"float", v>>

\* the same for every value other than 0
C24_CasingIrrelevantNonZero ==
    \A q \in Queries, t \in ValidTimes, o \in Prices \ {0}, c \in Prices \ {0} :
        /\ \A h \in Prices \ {0}, l \in Prices \ {0} :
              ItemIs(t, o, h, l, c) =>
                  /\ parsed = ParseItem(q.trading_pair, Capitalised(t, o, h, l, c))
                  /\ parsed = ParseItem(q.trading_pair, LowerCase(t, o, h, l, c))
                  /\ parsed.ok /\ parsed.candle.open = o /\ parsed.candle.close = c
        /\ \A v \in Prices \ {0} :
              ItemWithVolumeIs(t, o, c, v) =>
                  /\ parsed = ParseItem(q.trading_pair, WithVolume(Capitalised(t, o, o, o, c), "Volume", v))
                  /\ parsed = ParseItem(q.trading_pair, WithVolume(LowerCase(t, o, o, o, c), "volume", v))
                  /\ parsed.ok /\ parsed.candle.volume = <<"float", v>>

\* an item whose only 0 is its volume parses to a candle under either
\* casing: with volume None under "Volume", with volume 0.0 under "volume"
C24_ZeroVolume ==
    \A t \in ValidTimes, o \in Prices \ {0}, c \in Prices \ {0} :
        /\ item = WithVolume(Capitalised(t, o, o, o, c), "Volume", 0) => parsed.ok /\ parsed.candle.volume = None
        /\ item = WithVolume(LowerCase(t, o, o, o, c), "volume", 0) => parsed.ok /\ parsed.candle.volume = <<"float", 0>>

\* C26: a listen call that ends because the socket was closed under it is
\* seen by its caller, listen_with_reconnect, as a failure (the handler of
\* "except Exception" runs: it counts the failure and sleeps or gives up),
\* not as the normal end of listen; and listen leaves the socket as it is.
C26_CloseSurfacedAsFailure ==
    [][\A c \in ClientIds :
          (/\ task[c].pc = "recv" /\ ~task[c].cancel
           /\ client[c].websocket = "closed"
           /\ task'[c].pc # "recv")
          => /\ task'[c].pc \in {"sleep", "gaveup"}
             /\ client'[c].websocket = client[c].websocket]_vars

\* a listen call that ends on a frame it cannot parse is seen by its caller
\* as a failure, and a listen call that ends in any way leaves the socket
\* as it is: listen does not connect again
C26_ErrorSurfacedNoReconnect ==
    [][\A c \in ClientIds :
          (task[c].pc = "recv" /\ ~task[c].cancel /\ task'[c].pc \notin {"recv", "bcast"})
          => /\ client'[c].websocket = client[c].websocket
             /\ ~client'[c].running
             /\ client[c].websocket = "open" => task'[c].pc \in {"sleep", "gaveup"}]_vars

\* C27: clear_expired removes every entry older than ttl and leaves every
\* other entry as it is; clear removes every entry; and a get on a key that
\* has no entry returns None.
C27_ClearAndSweep ==
    [][\A p \in Callers :
          /\ Calls(p, "clear_expired") =>
                /\ req'[p].pc = "returned"
                /\ \A key \in DOMAIN cache :
                      IF now - cache[key].timestamp > ttl
                      THEN key \notin DOMAIN cache'
                      ELSE key \in DOMAIN cache' /\ cache'[key] = cache[key]
                /\ DOMAIN cache' \subseteq DOMAIN cache
          /\ Calls(p, "clear") => req'[p].pc = "returned" /\ DOMAIN cache' = {}
          /\ (Calls(p, "get") /\ req'[p].key \notin DOMAIN cache) =>
                req'[p].ret = None /\ req'[p].key \notin DOMAIN cache']_vars

\* clear_expired has returned: it removed an entry older than ttl and kept
\* an entry whose age is exactly ttl
C27_Witness ==
    \E p \in Callers, k1 \in DOMAIN lastSet, k2 \in DOMAIN cache :
        /\ ReturnedFrom(p, "clear_expired")
        /\ k1 \notin DOMAIN cache /\ Elapsed(k1) > ttl
        /\ now - cache[k2].timestamp = ttl

\* ============================================================ the cache keys
\* a query, and one query for each component in which a query can differ
\* from it
BaseQuery == [trading_pair |-> "xau_usd", interval |-> 3600, limit |-> 50, offset |-> 0, sort |-> "desc"]
KeyQueries ==
    {BaseQuery,
     [BaseQuery EXCEPT !.trading_pair = "xag_usd"],
     [BaseQuery EXCEPT !.interval = 60],
     [BaseQuery EXCEPT !.limit = 100],
     [BaseQuery EXCEPT !.offset = 50],
     [BaseQuery EXCEPT !.sort = "asc"]}

\* the payload that callers set for a query, and the answer of the upstream
PayloadFor(q) == IF q.sort = "asc" THEN Candles(1) ELSE Candles(0)
KeyResponses == {r \in CacheResponses : r.status = "ok" /\ Len(r.items) = 1}

MaxEntries == 2          \* entries that the caller lets the cache hold

\* the call with query q adds no entry beyond MaxEntries
EntriesLeft(q) == get_cache_key(q) \in DOMAIN cache \/ Cardinality(DOMAIN cache) < MaxEntries

\* one caller of get, set and get_or_fetch with these queries, on an
\* upstream that answers
NextKeys ==
    \/ \E p \in Solo, q \in KeyQueries : CacheGet(p, q)
    \/ \E p \in Solo, q \in KeyQueries : EntriesLeft(q) /\ CacheSet(p, q, PayloadFor(q))
    \/ \E p \in Solo, q \in KeyQueries : EntriesLeft(q) /\ GetOrFetch(p, q)
    \/ \E p \in Solo, resp \in KeyResponses : AttemptSucceeded(p, resp)
    \/ \E p \in Solo : CacheResume(p)
    \/ ClockTick

SpecKeys == InitIdle /\ [][NextKeys]_vars

\* the entry of the cache for query q, if any
Entry(c, q) == IF get_cache_key(q) \in DOMAIN c THEN <<c[get_cache_key(q)]>> ELSE <<>>

\* C28: a step of a get, a set or a get_or_fetch with query q leaves the
\* entry of every query that differs from q in any component as it is, and
\* what a get or a get_or_fetch returns without an upstream fetch is the
\* payload of the entry of q itself.
C28_KeyedByFullTuple ==
    [][\A p \in Callers :
        (req'[p] # req[p] /\ req'[p].op \in {"get", "set", "get_or_fetch"}) =>
        \A q \in KeyQueries, q2 \in KeyQueries :
          (req'[p].key = get_cache_key(q) /\ q2 # q)
          => /\ Entry(cache', q2) = Entry(cache, q2)
             /\ (req'[p].pc = "returned" /\ req'[p].ret \notin {None, Raised} /\ req'[p].fetches = 0
                 /\ req'[p].op # "set")
                => Entry(cache, q) # <<>> /\ req'[p].ret = Entry(cache, q)[1].data]_vars

\* a get has returned the payload stored for its own query while another
\* query, which differs from it in the sort order only, has an entry with
\* a different payload
C28_Witness ==
    \E p \in Callers :
        /\ ReturnedFrom(p, "get")
        /\ req[p].key = get_cache_key(BaseQuery)
        /\ Entry(cache, [BaseQuery EXCEPT !.sort = "asc"]) # <<>>
        /\ Entry(cache, BaseQuery) # <<>>
        /\ req[p].ret = Entry(cache, BaseQuery)[1].data
        /\ req[p].ret # Entry(cache, [BaseQuery EXCEPT !.sort = "asc"])[1].data

\* ================================================== overlapping teardowns
\* stop_all, and _stop_stream up to the await of websocket.close(). The
\* model has one instrument, so the loop over list(self.clients.keys()) has
\* at most one iteration.
StopAll(p) ==
    /\ call[p].pc = "idle"
    /\ IF DOMAIN clients = {}
       THEN /\ call' = Return(p, "stop_all", "none", "ok")
            /\ UNCHANGED <<subscribers, clients, tasks, client, task>>
       ELSE LET sym == CHOOSE x \in DOMAIN clients : TRUE
                c == clients[sym]
            IN  /\ IF sym \in DOMAIN tasks
                   THEN /\ task' = [task EXCEPT ![tasks[sym]] = Cancel(@)]
                        /\ tasks' = Del(tasks, sym)
                   ELSE UNCHANGED <<task, tasks>>
                /\ client' = [client EXCEPT ![c].running = FALSE]
                /\ IF client[c].websocket # "None"
                   THEN /\ call' = [call EXCEPT ![p] =
                                       [pc |-> "close", op |-> "stop_all",
                                        symbol |-> sym, client |-> c, ret |-> "none"]]
                        /\ UNCHANGED <<clients, subscribers>>
                   ELSE /\ clients' = Del(clients, sym)
                        /\ subscribers' = Del(subscribers, sym)
                        /\ call' = Return(p, "stop_all", sym, "ok")
    /\ UNCHANGED <<nclients, budget, sent>>
    /\ delivered' = NoBroadcast
    /\ UNCHANGED cacheVars

\* subscribers come and go and the application stops all streams, with
\* calls that overlap, on an upstream that accepts every connection and
\* stays silent
NextTeardown ==
    \/ \E p \in Callers, sym \in Instruments : Subscribe(p, sym)
    \/ \E p \in Callers : StartStreamConnected(p)
    \/ \E p \in Callers, sym \in Instruments : Unsubscribe(p, sym)
    \/ \E p \in Callers : StopAll(p)
    \/ \E p \in Callers : StopStreamClosed(p)
    \/ \E p \in Callers : Resume(p)
    \/ \E c \in ClientIds : TaskStart(c)
    \/ \E c \in ClientIds : TaskCancelled(c)

SpecTeardown == Init /\ [][NextTeardown]_vars

\* C29: every unsubscribe and every stop_all returns without raising, also
\* when it overlaps another teardown of the same instrument, and when the
\* last of the overlapping teardowns has returned the manager holds no
\* connection, no listen task and no subscriber entry for the instrument.
C29_OverlappingTeardowns ==
    [][\A p \in Callers :
          (call[p].pc = "close" /\ call'[p].pc = "returned") =>
              /\ call'[p].ret = "ok"
              /\ (\A o \in Callers : call'[o].pc = "idle" \/ o = p) =>
                    \A sym \in Instruments :
                        sym \notin DOMAIN clients' \cup DOMAIN tasks' \cup DOMAIN subscribers']_vars

\* C30: the failure counter and the backoff delay of a listen loop never
\* decrease while the loop lives, whatever reconnects succeed and ticks are
\* delivered in between: the counter changes only by the one that a failure
\* adds, and the loop gives up at the failure that follows max_retries - 1
\* counted ones, so that a live loop never counts max_retries.
C30_CounterNeverReset ==
    [][\A c \in ClientIds :
          /\ (TaskLive(task[c]) /\ TaskLive(task'[c])) =>
                /\ task'[c].retry_delay >= task[c].retry_delay
                /\ task'[c].retry_count >= task[c].retry_count
                /\ task'[c].retry_count # task[c].retry_count =>
                      task'[c].retry_count = task[c].retry_count + 1 /\ task'[c].pc = "sleep"
          /\ (task'[c].pc = "gaveup" /\ task[c].pc # "gaveup") =>
                task[c].retry_count = max_retries - 1
          /\ TaskLive(task'[c]) => task'[c].retry_count < max_retries]_vars

\* after max_retries - 1 failures, each followed by a reconnect, the loop
\* broadcasts a tick with the counter and the delay that the failures left
C30_Witness ==
    \E c \in ClientIds :
        /\ task[c].pc = "bcast" /\ task[c].snapshot # {}
        /\ task[c].retry_count = max_retries - 1
        /\ task[c].retry_delay = Pow2(max_retries - 1)

\* C31: when the connect of a subscribe fails, the subscribe raises to its
\* caller and the manager records no connection and no listen task for the
\* symbol, the client object is left without socket and without task; and
\* a subscribe for a symbol without recorded connection constructs a new
\* client and awaits its connect.
C31_FailedConnectRetried ==
    [][\A p \in Callers :
          /\ (call[p].pc = "connect" /\ call'[p].pc = "returned" /\ sent' # sent) =>
                /\ call'[p].op = "subscribe" /\ call'[p].ret = "raised"
                /\ call[p].symbol \notin DOMAIN clients' \cup DOMAIN tasks'
                /\ client'[call[p].client].websocket = "None"
                /\ task'[call[p].client] = NoTask
          /\ (call[p].pc = "idle" /\ call'[p].op = "subscribe" /\ call'[p].symbol \notin DOMAIN clients) =>
                /\ call'[p].pc = "connect"
                /\ call'[p].client = nclients + 1 /\ nclients' = nclients + 1]_vars

\* after the connect of the first client failed, a subscribe awaits the
\* connect of a second client
C31_Witness ==
    \E p \in Callers :
        /\ call[p].pc = "connect" /\ call[p].client = 2
        /\ client[1].symbol = call[p].symbol
        /\ client[1].websocket = "None" /\ task[1] = NoTask
        /\ sent > 0

\* ========================== websocket_router.py: the multi-symbol endpoint
\* the send_tick closures that handle_subscription creates, in the order of
\* their creation: every call creates a new one
Closures == <<"a", "b">>

\* callbacks[symbol] = send_tick
RecordCallback(callbacks, symbol, send_tick) == Put(callbacks, symbol, send_tick)

MultiUnchanged == UNCHANGED <<pollVars, parseVars, asked, batch>>

\* a "subscribe" message: handle_subscription up to the first await of
\* stream_manager.subscribe
MultiSubscribe(sym) ==
    /\ multi.pc = "receive"
    /\ multi.made < Len(Closures)
    /\ LET send_tick == Closures[multi.made + 1]
       IN  /\ SubscribeCall(send_tick, sym)
           /\ multi' = [multi EXCEPT !.pc = "subscribing", !.made = @ + 1, !.cb = send_tick,
                                     !.callbacks = RecordCallback(@, sym, send_tick),
                                     !.subscribed_symbols = @ \cup {sym}]
    /\ MultiUnchanged

\* stream_manager.subscribe returned: the handler answers and receives
\* again; or it raised: the error leaves the loop and the finally block runs
MultiSubscribed ==
    /\ multi.pc = "subscribing"
    /\ call[multi.cb].pc = "returned"
    /\ call' = [call EXCEPT ![multi.cb] = Idle]
    /\ IF call[multi.cb].ret = "raised"
       THEN multi' = [multi EXCEPT !.pc = "finally", !.cb = "none", !.todo = multi.subscribed_symbols]
       ELSE multi' = [multi EXCEPT !.pc = "receive", !.cb = "none"]
    /\ delivered' = NoBroadcast
    /\ UNCHANGED <<subscribers, clients, tasks, client, task, nclients, budget, sent>>
    /\ MultiUnchanged

\* an "unsubscribe" message for a subscribed symbol: handle_unsubscription
\* up to the first await of stream_manager.unsubscribe
MultiUnsubscribe(sym) ==
    /\ multi.pc = "receive"
    /\ sym \in multi.subscribed_symbols
    /\ UnsubscribeCall(multi.callbacks[sym], sym)
    /\ multi' = [multi EXCEPT !.pc = "unsubscribing", !.cb = multi.callbacks[sym]]
    /\ MultiUnchanged

\* stream_manager.unsubscribe returned or raised ("except Exception:
\* pass"): subscribed_symbols.discard(symbol), del callbacks[symbol]; then
\* the handler receives again, or goes on with the loop of the finally block
MultiUnsubscribed ==
    /\ multi.pc \in {"unsubscribing", "closing"}
    /\ call[multi.cb].pc = "returned"
    /\ call' = [call EXCEPT ![multi.cb] = Idle]
    /\ LET sym == call[multi.cb].symbol
       IN  multi' = [multi EXCEPT !.pc = IF multi.pc = "closing" THEN "finally" ELSE "receive",
                                  !.cb = "none",
                                  !.subscribed_symbols = @ \ {sym},
                                  !.callbacks = Del(@, sym)]
    /\ delivered' = NoBroadcast
    /\ UNCHANGED <<subscribers, clients, tasks, client, task, nclients, budget, sent>>
    /\ MultiUnchanged

\* receive_text raised WebSocketDisconnect: the finally block starts with
\* list(subscribed_symbols)
MultiDisconnect ==
    /\ multi.pc = "receive"
    /\ multi' = [multi EXCEPT !.pc = "finally", !.todo = multi.subscribed_symbols]
    /\ delivered' = NoBroadcast
    /\ UNCHANGED <<subscribers, clients, tasks, client, task, nclients, call, budget, sent>>
    /\ MultiUnchanged

\* the loop of the finally block: handle_unsubscription of the next symbol
\* up to the first await of stream_manager.unsubscribe, or the end
MultiFinally ==
    /\ multi.pc = "finally"
    /\ IF multi.todo = {}
       THEN /\ multi' = [multi EXCEPT !.pc = "done"]
            /\ delivered' = NoBroadcast
            /\ UNCHANGED <<subscribers, clients, tasks, client, task, nclients, call, budget, sent>>
       ELSE \E sym \in multi.todo :
              IF sym \in multi.subscribed_symbols
              THEN /\ UnsubscribeCall(multi.callbacks[sym], sym)
                   /\ multi' = [multi EXCEPT !.pc = "closing", !.cb = multi.callbacks[sym],
                                             !.todo = @ \ {sym}]
              ELSE /\ multi' = [multi EXCEPT !.todo = @ \ {sym}]
                   /\ delivered' = NoBroadcast
                   /\ UNCHANGED <<subscribers, clients, tasks, client, task, nclients, call, budget, sent>>
    /\ MultiUnchanged

\* one downstream client of the multi endpoint, which sends subscribe and
\* unsubscribe messages and disconnects, on an upstream that sends ticks
\* and may refuse a connection
NextMulti ==
    \/ \E sym \in Instruments : MultiSubscribe(sym)
    \/ MultiSubscribed
    \/ \E sym \in Instruments : MultiUnsubscribe(sym)
    \/ MultiUnsubscribed
    \/ MultiDisconnect
    \/ MultiFinally
    \/ \E p \in Callers : StartStreamConnected(p)
    \/ \E p \in Callers : StartStreamConnectFailed(p)
    \/ \E p \in Callers : StopStreamClosed(p)
    \/ \E c \in ClientIds : TaskStart(c)
    \/ \E c \in ClientIds : TaskRecvTick(c)
    \/ \E c \in ClientIds : \E raising \in SUBSET Callers : TaskBroadcastDone(c, raising)
    \/ \E c \in ClientIds : TaskCancelled(c)

SpecMulti == Init /\ [][NextMulti]_vars

\* the closures that the handler has created
Made == {Closures[i] : i \in 1..multi.made}

\* C32: when the handler of a downstream client has ended, none of the
\* callbacks it created is registered in the stream manager, and no stream
\* is left (the handler's callbacks are the only subscribers).
C32_NothingLeftRegistered ==
    multi.pc = "done" =>
        /\ \A sym \in DOMAIN subscribers : subscribers[sym] \cap Made = {}
        /\ DOMAIN clients = {} /\ DOMAIN tasks = {}

\* when the handler has ended, the callback it recorded last for each
\* symbol is not registered, and the handler holds no symbol
C32_LastCallbackRemoved ==
    multi.pc = "done" =>
        /\ multi.subscribed_symbols = {} /\ DOMAIN multi.callbacks = {}
        /\ multi.made > 0 => \A sym \in DOMAIN subscribers : Closures[multi.made] \notin subscribers[sym]

\* C33: a get_or_fetch whose upstream fetch completes returns the list of
\* its own fetch, whatever other get_or_fetch calls on the key are in
\* flight or have completed since it started, and leaves the other calls
\* as they are; it replaces the entry of the key by its own list, stamped
\* with the time of the store, so that the entry is that of the fetch that
\* completed last.
C33_LastFetchWins ==
    [][\A p \in Callers :
          (req[p].op = "get_or_fetch" /\ Fetching(p) /\ req'[p].pc = "returned" /\ req'[p].ret # Raised) =>
              /\ req'[p].ret = Attempt(req'[p].resp).result
              /\ cache'[req[p].key] = [timestamp |-> now, data |-> req'[p].ret]
              /\ \A o \in Callers \ {p} : req'[o] = req[o]]_vars

\* two get_or_fetch calls on one key overlapped and have returned different
\* lists, each from its own fetch; the entry holds the list of b, stored
\* later than a had started
C33_Witness ==
    /\ ReturnedFrom("a", "get_or_fetch") /\ ReturnedFrom("b", "get_or_fetch")
    /\ req["a"].key = req["b"].key
    /\ req["a"].fetches = 1 /\ req["b"].fetches = 1
    /\ req["a"].ret # req["b"].ret
    /\ req["a"].ret = Attempt(req["a"].resp).result
    /\ req["b"].ret = Attempt(req["b"].resp).result
    /\ cache[req["a"].key].data = req["b"].ret
    /\ cache[req["a"].key].timestamp > 0

\* ================================ stream_manager.py: repeated subscriptions
\* subscribe, counted in asked
SubscribeAsked(p, sym) ==
    /\ asked[p][sym] < MaxAsked
    /\ SubscribeCall(p, sym)
    /\ asked' = [asked EXCEPT ![p][sym] = @ + 1]
    /\ UNCHANGED <<pollVars, parseVars, multi, batch>>

\* unsubscribe, which undoes the subscribe calls counted for the callback
UnsubscribeAsked(p, sym) ==
    /\ UnsubscribeCall(p, sym)
    /\ asked' = [asked EXCEPT ![p][sym] = 0]
    /\ UNCHANGED <<pollVars, parseVars, multi, batch>>

\* serial calls of two callbacks, each of which may subscribe repeatedly,
\* on an upstream that connects and sends ticks
NextAsked ==
    \/ \E p \in Callers, sym \in Instruments : Quiescent /\ SubscribeAsked(p, sym)
    \/ \E p \in Callers : StartStreamConnected(p)
    \/ \E p \in Callers, sym \in Instruments : Quiescent /\ UnsubscribeAsked(p, sym)
    \/ \E p \in Callers : StopStreamClosed(p)
    \/ \E p \in Callers : Resume(p)
    \/ \E c \in ClientIds : TaskStart(c)
    \/ \E c \in ClientIds : TaskRecvTick(c)
    \/ \E c \in ClientIds : \E raising \in SUBSET Callers : TaskBroadcastDone(c, raising)
    \/ \E c \in ClientIds : TaskCancelled(c)

SpecAsked == Init /\ [][NextAsked]_vars

\* the callbacks for which subscribe was called since their last unsubscribe
Asked(sym) == {p \in Callers : asked[p][sym] >= 1}

\* however often subscribe was called for a callback, it is in the
\* subscriber set exactly until its next unsubscribe call, and between
\* calls the symbol has one connection while a callback is subscribed and
\* none otherwise
Registration ==
    \A sym \in Instruments :
        /\ Subs(sym) = Asked(sym)
        /\ Quiescent => /\ Cardinality(Connections(sym)) = (IF Asked(sym) = {} THEN 0 ELSE 1)
                        /\ sym \in get_active_streams <=> Asked(sym) # {}

\* C34: however often subscribe was called for a callback and a symbol, the
\* callback is in the subscriber set as one element and is there exactly
\* until its next unsubscribe call, which closes the connection when no
\* other callback is subscribed; a repeated subscribe returns at once and
\* changes nothing in the manager; and the callbacks awaited for a tick
\* are the callbacks subscribed when it was received, each of them once.
C34_RegisteredOnce ==
    /\ []Registration
    /\ [][/\ \A p \in Callers, sym \in Instruments :
                (asked[p][sym] >= 1 /\ asked'[p][sym] > asked[p][sym]) =>
                    /\ UNCHANGED <<subscribers, clients, tasks, client, task, nclients>>
                    /\ call'[p] = [pc |-> "returned", op |-> "subscribe", symbol |-> sym,
                                   client |-> 0, ret |-> "ok"]
          /\ \A c \in ClientIds :
                (task[c].pc = "recv" /\ task'[c].pc = "bcast") =>
                    task'[c].snapshot = Asked(client[c].symbol)
          /\ \A c \in ClientIds :
                (task[c].pc = "bcast" /\ task'[c].pc # "bcast" /\ ~task[c].cancel) =>
                    delivered'.invoked = task[c].snapshot
          /\ \A p \in Callers, sym \in Instruments :
                (asked[p][sym] >= 2 /\ asked'[p][sym] = 0) =>
                    /\ p \notin Subs(sym)'
                    /\ Subs(sym) = {p} => /\ sym \notin DOMAIN tasks'
                                          /\ task'[clients[sym]].cancel \/ ~TaskLive(task[clients[sym]])
                                          /\ call'[p].pc = "close"
                                          /\ call'[p].client = clients[sym]]_vars

\* callback a was subscribed twice and is the only subscriber; a tick went
\* to it alone
C34_Witness ==
    /\ asked["a"]["XAU_USD"] = 2
    /\ Subs("XAU_USD") = {"a"}
    /\ delivered.invoked = {"a"}
    /\ Cardinality(Connections("XAU_USD")) = 1

\* callback a was subscribed twice and one unsubscribe has removed it and
\* closed the connection
C34_WitnessRemoved ==
    /\ Returned("a", "unsubscribe", "XAU_USD")
    /\ asked["a"]["XAU_USD"] = 0
    /\ nclients = 1
    /\ sent > 0
    /\ Subs("XAU_USD") = {}
    /\ Connections("XAU_USD") = {}

\* ======================== stream_manager.py: unsubscribe without subscribe
\* callback a subscribes and unsubscribes; callback b is never subscribed
\* and calls unsubscribe at any time, also while a call of a is in progress
NextStranger ==
    \/ \E p \in Solo, sym \in Instruments : Subscribe(p, sym)
    \/ \E p \in Callers : StartStreamConnected(p)
    \/ \E p \in Callers : StartStreamConnectFailed(p)
    \/ \E p \in Callers, sym \in Instruments : Unsubscribe(p, sym)
    \/ \E p \in Callers : StopStreamClosed(p)
    \/ \E p \in Callers : Resume(p)
    \/ \E c \in ClientIds : PeerClose(c)
    \/ \E c \in ClientIds : TaskStart(c)
    \/ \E c \in ClientIds : TaskRecvTick(c)
    \/ \E c \in ClientIds : TaskRecvClosed(c)
    \/ \E c \in ClientIds : \E raising \in SUBSET Callers : TaskBroadcastDone(c, raising)
    \/ \E c \in ClientIds : TaskCancelled(c)

SpecStranger == Init /\ [][NextStranger]_vars

\* no call of another caller for the symbol is in progress
NoOtherCall(p, sym) ==
    \A o \in Callers \ {p} : call[o].pc \in {"idle", "returned"} \/ call[o].symbol # sym

\* C35: an unsubscribe call for a callback that is not in the subscriber
\* set of the symbol, made while no other call for the symbol is in
\* progress, returns normally at once and leaves the subscriber sets, the
\* connections and the listen tasks as they were.
C35_StrangerChangesNothing ==
    [][\A p \in Callers, sym \in Instruments :
          (/\ call[p].pc = "idle" /\ call'[p].pc # "idle"
           /\ call'[p].op = "unsubscribe" /\ call'[p].symbol = sym
           /\ p \notin Subs(sym)
           /\ NoOtherCall(p, sym)) =>
              /\ call'[p] = [pc |-> "returned", op |-> "unsubscribe", symbol |-> sym,
                             client |-> 0, ret |-> "ok"]
              /\ UNCHANGED <<subscribers, clients, tasks, client, task, nclients>>]_vars

\* callback b, never subscribed, has returned from unsubscribe while a is
\* subscribed with its connection open and its listen task receiving
C35_Witness ==
    /\ Returned("b", "unsubscribe", "XAU_USD") /\ call["b"].ret = "ok"
    /\ Subs("XAU_USD") = {"a"}
    /\ "XAU_USD" \in DOMAIN clients /\ client[clients["XAU_USD"]].websocket = "open"
    /\ "XAU_USD" \in DOMAIN tasks /\ task[tasks["XAU_USD"]].pc = "recv"

\* =============================== batch_operations.py: get_multiple_pairs_ohlc
\* TradingPair values, and the lists of them that a batch is asked for (a
\* pair may be listed twice)
Pairs == {"xau_usd", "xag_usd"}

\* the coroutines of the list "tasks", in the order of pairs; each is a
\* call of get_ohlc_data
Coroutines == <<"a", "b">>
PairLists == UNION {[1..n -> Pairs] : n \in 0..Len(Coroutines)}

\* get_ohlc_data(pair, interval, limit, offset, sort) with the defaults
PairQuery(pair, interval) ==
    [trading_pair |-> pair, interval |-> interval, limit |-> 50, offset |-> 0, sort |-> "desc"]

\* isinstance(result, Exception): what get_ohlc_data raises was caught by
\* its "except Exception" before it was raised again
IsException(result) == result = Raised

\* (mutant) the result of the gather as it is
ResultAsIs(result) == result

\* result if not isinstance(result, Exception) else []
ResultOrEmpty(result) == IF IsException(result) THEN <<>> ELSE result

\* the dict comprehension over zip(pairs, results): the first n insertions
RECURSIVE ZipDict(_, _, _)
ZipDict(pairs, results, n) ==
    IF n = 0 THEN EmptyDict
    ELSE Put(ZipDict(pairs, results, n - 1), pairs[n], ResultOrEmpty(results[n]))

\* get_multiple_pairs_ohlc up to the await of the gather: every coroutine
\* runs to its first request
BatchCall(pairs, interval) ==
    /\ batch.pc = "idle"
    /\ \A p \in Callers : req[p].pc = "idle"
    /\ req' = [p \in Callers |->
                 IF \E i \in 1..Len(pairs) : Coroutines[i] = p
                 THEN LET i == CHOOSE j \in 1..Len(pairs) : Coroutines[j] = p
                      IN  FirstRequest(p, PairQuery(pairs[i], interval))
                 ELSE req[p]]
    /\ batch' = [pc |-> "gather", pairs |-> pairs, ret |-> <<>>]
    /\ UNCHANGED <<cache, lock, now, lastSet, ncalls, managerVars, parseVars, multi, asked>>

\* asyncio.gather(*tasks, return_exceptions=True) returned, which it does
\* when every coroutine has returned or raised: the dict is built
BatchReturn ==
    /\ batch.pc = "gather"
    /\ \A i \in 1..Len(batch.pairs) : req[Coroutines[i]].pc = "returned"
    /\ LET results == [i \in 1..Len(batch.pairs) |-> req[Coroutines[i]].ret]
       IN  batch' = [batch EXCEPT !.pc = "returned",
                                  !.ret = ZipDict(batch.pairs, results, Len(batch.pairs))]
    /\ UNCHANGED <<pollVars, managerVars, parseVars, multi, asked>>

\* the upstream of a batch: a request fails, or is answered with a list of
\* items that parse
BatchResponses == {r \in Responses : /\ r.status \in {"request_error", "ok"}
                                     /\ r.shape \in {"none", "list"}
                                     /\ \A i \in 1..Len(r.items) : r.items[i] = "item"}

\* one batch call
NextBatch ==
    \/ \E pairs \in PairLists, interval \in {60, 3600} : BatchCall(pairs, interval)
    \/ \E p \in Callers, resp \in BatchResponses : AttemptSucceeded(p, resp)
    \/ \E p \in Callers, resp \in BatchResponses : AttemptFailed(p, resp)
    \/ \E p \in Callers : RetrySleepDone(p)
    \/ BatchReturn

SpecBatch == InitIdle /\ [][NextBatch]_vars

\* the position in pairs that decides the entry of pairs[i]: the last one
\* that names the same pair
Decides(i) == \A j \in 1..Len(batch.pairs) : batch.pairs[j] = batch.pairs[i] => j <= i

\* C36: the dict that a batch returns has exactly the requested pairs as
\* its keys; the entry of a pair whose fetch raised after its last attempt
\* is the empty list, and the entry of every other pair is the list that
\* its own get_ohlc_data returned, whatever became of the other fetches
\* (for a pair that is listed twice, its last fetch decides).
C36_EntryPerPair ==
    batch.pc = "returned" =>
        /\ DOMAIN batch.ret = {batch.pairs[i] : i \in 1..Len(batch.pairs)}
        /\ \A i \in 1..Len(batch.pairs) :
              LET c == req[Coroutines[i]]
              IN  /\ c.op = "get_ohlc_data" /\ c.key[1] = batch.pairs[i] /\ c.pc = "returned"
                  /\ Decides(i) =>
                        IF c.ret = Raised
                        THEN /\ c.attempt = MAX_RETRIES
                             /\ ~Attempt(c.resp).ok
                             /\ batch.ret[batch.pairs[i]] = <<>>
                        ELSE /\ Attempt(c.resp).ok
                             /\ batch.ret[batch.pairs[i]] = Attempt(c.resp).result

\* a batch over two pairs has returned: the fetch of the first failed three
\* times and its entry is empty, the other entry is the candle fetched
C36_Witness ==
    /\ batch.pc = "returned"
    /\ batch.pairs = <<"xau_usd", "xag_usd">>
    /\ req["a"].ret = Raised /\ req["a"].attempt = MAX_RETRIES
    /\ req["b"].ret = Candles(1)
    /\ batch.ret["xau_usd"] = <<>>
    /\ batch.ret["xag_usd"] = Candles(1)
====
